---- MODULE Spec2Model ----
(***************************************************************************)
(* Pipeline orchestration of vid-clip-ai: the video lifecycle state        *)
(* machine (src/pipeline/state_machine.py), the orchestrator               *)
(* (src/pipeline/orchestrator.py), the store operations it uses            *)
(* (src/database/operations.py) and the transcription agent                *)
(* (src/agents/transcription.py).                                          *)
(*                                                                         *)
(* Python values are kept as the strings the code uses: a status is the    *)
(* value of a VideoState member ("ingested"), a method's return value is   *)
(* "True", "False" or "None", an exception is [type, message] with the     *)
(* message a sequence of the pieces its f-string is built from.            *)
(***************************************************************************)
EXTENDS Integers, Sequences, FiniteSets, TLC

\* ------------------------------------------------------------------ bounds
NumVideos == 2
MaxRuns == 2
MaxSegs == 1
NumPaths == 2
MaxNotify == 3
NumSegIds == 2
MaxScoreOps == 3

\* PromptProvider.get calls between two clear_cache calls
MaxGets == 3

\* Prompt objects the provider constructs
MaxInstances == 3

\* the video ids a PipelineContext may carry: NumVideos registered videos and
\* one id that has no row in the store
Videos == 1..(NumVideos + 1)

\* get_video(video_id) returns None: no row with that id
Absent == "absent"

\* ------------------------------------------------- state_machine.py
\* class VideoState(Enum): member name |-> value
VideoState ==
    [INGESTED |-> "ingested", TRANSCRIBED |-> "transcribed",
     SEGMENTED |-> "segmented", SCORED |-> "scored", READY |-> "ready",
     ARCHIVED |-> "archived", ERROR |-> "error"]

Members == DOMAIN VideoState

StateNames == {VideoState[m] : m \in Members}

\* VideoState(value): the member with that value, or ValueError
VideoStateByValue(value) ==
    IF \E m \in Members : VideoState[m] = value
    THEN CHOOSE m \in Members : VideoState[m] = value
    ELSE "ValueError"

\* a table in which a failed video may be taken up again
TRANSITIONS_error_restarts ==
    [INGESTED |-> <<"TRANSCRIBED", "ERROR">>,
     TRANSCRIBED |-> <<"SEGMENTED", "ERROR">>,
     SEGMENTED |-> <<"SCORED", "ERROR">>,
     SCORED |-> <<"READY", "ERROR">>,
     READY |-> <<"ARCHIVED", "ERROR">>,
     ARCHIVED |-> <<>>,
     ERROR |-> <<"INGESTED">>]

\* StateMachine.TRANSITIONS
TRANSITIONS ==
    [INGESTED |-> <<"TRANSCRIBED", "ERROR">>,
     TRANSCRIBED |-> <<"SEGMENTED", "ERROR">>,
     SEGMENTED |-> <<"SCORED", "ERROR">>,
     SCORED |-> <<"READY", "ERROR">>,
     READY |-> <<"ARCHIVED", "ERROR">>,
     ARCHIVED |-> <<>>,
     ERROR |-> <<>>]

\* a lookup with the two arguments exchanged
can_transition_swapped(current, next_state) ==
    /\ next_state \in DOMAIN TRANSITIONS
    /\ \E i \in DOMAIN TRANSITIONS[next_state] : TRANSITIONS[next_state][i] = current

\* StateMachine.can_transition: next_state in cls.TRANSITIONS.get(current, [])
can_transition(current, next_state) ==
    /\ current \in DOMAIN TRANSITIONS
    /\ \E i \in DOMAIN TRANSITIONS[current] : TRANSITIONS[current][i] = next_state

NoException == [type |-> "none", message |-> <<>>]

\* a validation that consults the table before it looks at the names
validate_transition_table_first(current, next_state) ==
    IF ~can_transition(VideoStateByValue(current), VideoStateByValue(next_state))
    THEN [type |-> "ValueError",
          message |-> <<"Invalid transition from ", current, " to ", next_state>>]
    ELSE NoException

\* StateMachine.validate_transition(current, next_state): the exception it
\* raises, or NoException.  Both failures are a ValueError; the message tells
\* them apart.
validate_transition(current, next_state) ==
    LET current_enum == VideoStateByValue(current)
        next_enum == VideoStateByValue(next_state)
    IN  IF current_enum = "ValueError"
        THEN [type |-> "ValueError",
              message |-> <<"Invalid state: ", current, " is not a valid VideoState">>]
        ELSE IF next_enum = "ValueError"
        THEN [type |-> "ValueError",
              message |-> <<"Invalid state: ", next_state, " is not a valid VideoState">>]
        ELSE IF ~can_transition(current_enum, next_enum)
        THEN [type |-> "ValueError",
              message |-> <<"Invalid transition from ", current, " to ", next_state>>]
        ELSE NoException

\* ------------------------------------------------------ inputs
SegPool == {[start_time |-> 0, end_time |-> 5, text |-> "a"]}

\* result['transcript_segments']
TranscriptInputs == UNION {[1..n -> SegPool] : n \in 0..MaxSegs}

\* the store operation of a step that fails (commit or query raises), if any
StoreFaults ==
    {"none", "add_transcript_segments", "get_video", "update_video_status", "log_step"}

StoreError == [type |-> "StoreError", message |-> <<"store operation failed">>]

VARIABLES
    videoStatus,    \* videos.status per video id, Absent when there is no row
    statusWriter,   \* who wrote videos.status last
    transcript,     \* transcript rows per video
    log,            \* processing_log rows per video, in insertion order
    pc,             \* where execute_pipeline is for the video
    run,            \* the current (or last) execute_pipeline call of the video
    runs,           \* execute_pipeline calls made so far
    sm,             \* a direct call of the state machine and its outcome
    eventQueue,     \* created-events the observer has queued, oldest first
    processing,     \* VideoFileHandler.processing: paths being processed
    handler,        \* where on_created is, and for which path
    fileAt,         \* per path: os.path.isfile(file_path) in the incoming directory
    videosOf,       \* per path: Video rows created with that file_path
    attempted,      \* per path: a registration attempt has completed
    late,           \* per path: an event was queued after an attempt completed
    notified,       \* created-events emitted so far
    segmentRows,    \* segments rows, in id order (the id is the index)
    scoreRows,      \* segment_scores rows, in insertion order
    fieldWrites,    \* <<segment_id, field, stage>>: the stage wrote the field
    lastOp,         \* the last operation on the scores and its outcome
    scoreOps,       \* operations on segments and scores made so far
    protoCall,      \* the last Prompt.parse_output / Prompt.format call
    cache,          \* PromptProvider._cache as <<cache_key, instance>> entries
    instances,      \* number of Prompt objects constructed
    providerLog,    \* the get calls since the last clear_cache
    dirs,           \* per video: the directories of its context that exist
    context,        \* per video: the PipelineContext its runs are called with
    ctxCall         \* the last PipelineContext.to_dict call and the dict it returned

\* the file watcher's state
watchVars ==
    <<eventQueue, processing, handler, fileAt, videosOf, attempted, late, notified>>

\* segments and their scores
scoreVars == <<segmentRows, scoreRows, fieldWrites, lastOp, scoreOps>>

\* prompt protocols and the prompt provider
promptVars == <<protoCall, cache, instances, providerLog>>

vars ==
    <<videoStatus, statusWriter, transcript, log, pc, run, runs, dirs, context, sm,
      watchVars, scoreVars, promptVars, ctxCall>>

pipelineVars ==
    <<videoStatus, statusWriter, transcript, log, pc, run, runs, dirs, context>>

\* ------------------------------------------------- pipeline/context.py
\* processed_dir, and clips_dir and temp_dir inside it
AllDirs == {"processed", "clips", "temp"}

\* the mkdir call that fails when it has to create its directory
MkdirFaults == {"none"} \cup AllDirs

mkdir_no_exist_ok(existing, dir, fails) ==
    IF dir \in existing
    THEN [dirs |-> existing,
          exc |-> [type |-> "FileExistsError", message |-> <<"mkdir failed">>]]
    ELSE [dirs |-> existing \cup {dir, "processed"}, exc |-> NoException]

\* Path.mkdir(parents=True, exist_ok=True): nothing to do for a directory
\* that exists; otherwise it and its parents are created, or OSError is raised
mkdir(existing, dir, fails) ==
    IF dir \in existing THEN [dirs |-> existing, exc |-> NoException]
    ELSE IF fails
    THEN [dirs |-> existing,
          exc |-> [type |-> "OSError", message |-> <<"mkdir failed">>]]
    ELSE [dirs |-> existing \cup {dir, "processed"}, exc |-> NoException]

\* PipelineContext.ensure_directories: processed_dir, clips_dir, temp_dir in
\* this order; the first mkdir that raises ends the call
ensure_directories(existing, fault) ==
    LET a == mkdir(existing, "processed", fault = "processed")
        b == mkdir(a.dirs, "clips", fault = "clips")
        c == mkdir(b.dirs, "temp", fault = "temp")
    IN  IF a.exc # NoException THEN a
        ELSE IF b.exc # NoException THEN b
        ELSE c

\* the directories a context has before execute_pipeline is first called
\* with it: all of them after process_file, only processed_dir when clips and
\* temp were not made, none for a context built for an unknown video
InitDirs(v) ==
    IF v = 1 THEN AllDirs
    ELSE IF v <= NumVideos THEN {"processed"}
    ELSE {}

\* ------------------------------------------------- database/operations.py
\* a processing_log row (ProcessingLog(video_id, step, status, message))
LogEntry(step, status, message) ==
    [step |-> step, status |-> status, message |-> message]

log_step_overwrite(lg, step, status, message) ==
    IF lg = <<>> THEN <<LogEntry(step, status, message)>>
    ELSE [lg EXCEPT ![Len(lg)] = LogEntry(step, status, message)]

\* DatabaseOperations.log_step: the log with the row added
log_step(lg, step, status, message) ==
    Append(lg, LogEntry(step, status, message))

\* DatabaseOperations.add_transcript_segments: one row per segment, in order
add_transcript_segments(tr, segments) ==
    tr \o [i \in DOMAIN segments |->
              [start_time |-> segments[i].start_time,
               end_time |-> segments[i].end_time,
               text |-> segments[i].text]]

\* DatabaseOperations.update_video_status: writes whatever it is given, and
\* nothing when there is no such video
update_video_status(status, new_status) ==
    IF status # Absent THEN new_status ELSE status

\* ------------------------------------------------- orchestrator.py
\* execute_pipeline's stage calls, in the order it makes them
STAGES ==
    <<"transcription", "text_scoring", "vision_scoring", "micro_emphasis",
      "quality_assurance", "scoring_ranking", "rendering">>

\* Python truth of a stage method's return value (`if not self._run_x(...)`)
Truthy(value) == value = "True"

\* a placeholder that reports success
run_placeholder_true == "True"

\* _run_text_scoring .. _run_rendering: `pass`, so the call returns None
run_placeholder == "None"

\* _update_state without the validate_transition call
update_state_unvalidated(status, new_state, fault) ==
    IF fault = "get_video" THEN [status |-> status, exc |-> StoreError]
    ELSE IF status = Absent THEN [status |-> status, exc |-> NoException]
    ELSE IF fault = "update_video_status" THEN [status |-> status, exc |-> StoreError]
    ELSE [status |-> update_video_status(status, new_state), exc |-> NoException]

\* PipelineOrchestrator._update_state(video_id, new_state) on a video whose
\* status is `status`: the status afterwards and the exception raised, if any
update_state(status, new_state, fault) ==
    IF fault = "get_video" THEN [status |-> status, exc |-> StoreError]
    ELSE IF status = Absent THEN [status |-> status, exc |-> NoException]
    ELSE LET e == validate_transition(status, new_state)
         IN  IF e # NoException THEN [status |-> status, exc |-> e]
             ELSE IF fault = "update_video_status"
             THEN [status |-> status, exc |-> StoreError]
             ELSE [status |-> update_video_status(status, new_state),
                   exc |-> NoException]

\* what a stage call leaves behind: the store of the video, the call's return
\* value ("raise" when an exception leaves the method) and what happened in it
Effect(status, writer, tr, lg, ret, exc, logFailed) ==
    [status |-> status, writer |-> writer, transcript |-> tr, log |-> lg,
     ret |-> ret, exc |-> exc, logFailed |-> logFailed]

\* a failure branch that records the stage as done
on_stage_failure_logs_ok(status, writer, tr, lg, result, fault) ==
    IF fault = "log_step"
    THEN Effect(status, writer, tr, lg, "raise", StoreError, TRUE)
    ELSE Effect(status, writer, tr,
                log_step(lg, "transcribe", "ok", <<>>),
                "False", NoException, FALSE)

\* the failure branch of _run_transcription, lines 126-133
on_stage_failure(status, writer, tr, lg, result, fault) ==
    IF fault = "log_step"
    THEN Effect(status, writer, tr, lg, "raise", StoreError, TRUE)
    ELSE Effect(status, writer, tr,
                log_step(lg, "transcribe", "fail", result.errors),
                "False", NoException, FALSE)

\* the success branch of _run_transcription, lines 117-125
on_stage_success(status, writer, tr, lg, result, fault) ==
    IF fault = "add_transcript_segments"
    THEN Effect(status, writer, tr, lg, "raise", StoreError, FALSE)
    ELSE LET tr2 == add_transcript_segments(tr, result.transcript_segments)
             us == update_state(status, VideoState.TRANSCRIBED, fault)
             writer2 == IF us.status # status THEN "orchestrator" ELSE writer
         IN  IF us.exc # NoException
             THEN Effect(us.status, writer2, tr2, lg, "raise", us.exc, FALSE)
             ELSE IF fault = "log_step"
             THEN Effect(us.status, writer2, tr2, lg, "raise", StoreError, FALSE)
             ELSE Effect(us.status, writer2, tr2,
                         log_step(lg, "transcribe", "ok", <<>>),
                         "True", NoException, FALSE)

\* PipelineOrchestrator._run_transcription, given what the agent returned
run_transcription(status, writer, tr, lg, result, fault) ==
    IF result.success
    THEN on_stage_success(status, writer, tr, lg, result, fault)
    ELSE on_stage_failure(status, writer, tr, lg, result, fault)

\* the stage call execute_pipeline makes after stage i returned `ret`:
\* 0 stands for `return False`, Len(STAGES) + 1 for `return True`
next_stage_retry(i, ret) == IF Truthy(ret) THEN i + 1 ELSE i

next_stage(i, ret) == IF Truthy(ret) THEN i + 1 ELSE 0

\* ------------------------------------------------- agents/transcription.py
\* the methods DatabaseOperations defines (operations.py)
DatabaseOperationsMethods ==
    {"get_active_watch_directories", "get_watch_directory_by_user",
     "create_watch_directory", "create_video", "get_video", "get_user_videos",
     "update_video_status", "add_transcript_segments", "get_transcript",
     "add_segment", "get_segments", "add_or_update_score", "get_segment_scores",
     "log_step", "get_processing_logs"}

\* a store handle as the agents expect it: built without arguments, and with
\* the methods the agents call
AgentDatabaseOperations_handle ==
    [error |-> "none",
     methods |-> DatabaseOperationsMethods
                    \cup {"get_video_by_id", "log_processing_step",
                          "get_transcript_segments"}]

\* `DatabaseOperations()` inside an agent: the constructor requires a session
\* (operations.py:21), so the call raises TypeError and there is no handle
AgentDatabaseOperations == [error |-> "TypeError", methods |-> {}]

\* {success, transcript_segments, errors}: the envelope execute() returns
Envelope(success, segments, errors) ==
    [success |-> success, transcript_segments |-> segments, errors |-> errors]

\* what execute() leaves behind: its envelope and the store of the video
AgentOutcome(result, status, writer, tr, lg) ==
    [result |-> result, status |-> status, writer |-> writer,
     transcript |-> tr, log |-> lg]

\* the except branch of TranscriptionAgent.execute, lines 239-258: the
\* failure is logged to the store if that is possible, and a logging failure
\* is swallowed
agent_failure(e, status, writer, tr, lg) ==
    AgentOutcome(Envelope(FALSE, <<>>, <<e>>), status, writer, tr,
                 IF "log_processing_step" \in AgentDatabaseOperations.methods
                 THEN log_step(lg, "transcribe", "fail", <<e>>)
                 ELSE lg)

\* what the environment decides in one call of TranscriptionAgent.execute
AgentEnvs ==
    [file_exists : BOOLEAN, audio_ok : BOOLEAN, segments : TranscriptInputs]

\* TranscriptionAgent.execute, lines 176-258
TranscriptionAgent_execute(status, writer, tr, lg, env) ==
    IF ~env.file_exists
    THEN agent_failure("FileNotFoundError", status, writer, tr, lg)
    ELSE IF AgentDatabaseOperations.error # "none"
    THEN agent_failure(AgentDatabaseOperations.error, status, writer, tr, lg)
    ELSE IF ~env.audio_ok
    THEN agent_failure("RuntimeError", status, writer, tr, lg)
    ELSE LET saved == add_transcript_segments(tr, env.segments)
         IN  IF \/ status = Absent
                \/ "get_video_by_id" \notin AgentDatabaseOperations.methods
                \/ "log_processing_step" \notin AgentDatabaseOperations.methods
             THEN agent_failure("AttributeError", status, writer, saved, lg)
             ELSE AgentOutcome(Envelope(TRUE, env.segments, <<>>),
                               VideoState.TRANSCRIBED, "TranscriptionAgent", saved,
                               log_step(lg, "transcribe", "ok", <<"Transcribed">>))

\* ------------------------------------------------- agents/base_agent.py
\* BaseAgent.execute: an agent registered under a stage name returns an
\* envelope; the orchestrator reads nothing else of it.  These are the
\* envelopes of an agent that succeeds without touching the store itself;
\* the failure envelopes are those of TranscriptionAgent.execute.
EnvelopeInputs == {Envelope(TRUE, s, <<>>) : s \in TranscriptInputs}

\* every outcome of self.agents['transcription'].execute(context.to_dict())
AgentOutcomes(status, writer, tr, lg) ==
    {TranscriptionAgent_execute(status, writer, tr, lg, env) : env \in AgentEnvs}
        \cup {AgentOutcome(r, status, writer, tr, lg) : r \in EnvelopeInputs}

\* ------------------------------------------------- agents/file_watcher.py
\* the files that appear in the watched directory: NumPaths video files and
\* one file that is_video_file rejects
Paths == 1..(NumPaths + 1)

is_video_file(p) == p <= NumPaths

\* what the environment decides in one call of process_file
ProcessFileEnvs ==
    {"no_metadata", "create_video_raises", "mkdir_raises", "move_fails",
     "log_step_raises", "ensure_directories_raises", "ok"}

\* process_file has not returned
NoResult == [success |-> FALSE, created |-> FALSE, moved |-> FALSE, logged |-> FALSE]

\* FileWatcherAgent.process_file, lines 147-242: the result's success, whether
\* create_video committed a Video row, whether the file was moved away, and
\* whether the 'ingest' ok entry was logged. Every exception is caught and
\* turned into a failure result; nothing that was committed is undone.
process_file(isfile, env) ==
    IF ~isfile THEN NoResult
    ELSE IF env \in {"no_metadata", "create_video_raises"}
    THEN NoResult
    ELSE IF env \in {"mkdir_raises", "move_fails"}
    THEN [success |-> FALSE, created |-> TRUE, moved |-> FALSE, logged |-> FALSE]
    ELSE IF env = "log_step_raises"
    THEN [success |-> FALSE, created |-> TRUE, moved |-> TRUE, logged |-> FALSE]
    ELSE IF env = "ensure_directories_raises"
    THEN [success |-> FALSE, created |-> TRUE, moved |-> TRUE, logged |-> TRUE]
    ELSE [success |-> TRUE, created |-> TRUE, moved |-> TRUE, logged |-> TRUE]

\* on_created is not running
HandlerIdle == [pc |-> "idle", path |-> 0, raised |-> FALSE, result |-> NoResult]

\* the watcher after start_watching: one observer thread, nothing queued,
\* every file still in the incoming directory
InitWatch ==
    /\ eventQueue = <<>>
    /\ processing = {}
    /\ handler = HandlerIdle
    /\ fileAt = [p \in Paths |-> TRUE]
    /\ videosOf = [p \in Paths |-> 0]
    /\ attempted = [p \in Paths |-> FALSE]
    /\ late = [p \in Paths |-> FALSE]
    /\ notified = 0

\* the file system reports the creation of the file at path p; the observer
\* queues the event for its dispatch thread
Notify(p) ==
    /\ notified < MaxNotify
    /\ fileAt[p]
    /\ notified' = notified + 1
    /\ eventQueue' = Append(eventQueue, p)
    /\ late' = [late EXCEPT ![p] = @ \/ attempted[p]]
    /\ UNCHANGED <<processing, handler, fileAt, videosOf, attempted, pipelineVars, sm, scoreVars, promptVars,
                   ctxCall>>

\* on_created, lines 43-58: the observer's thread takes the next event; the
\* handler returns at once for a file that is no video or a path that is in
\* the set, and otherwise adds the path
OnCreatedBegin ==
    /\ handler.pc = "idle"
    /\ eventQueue # <<>>
    /\ LET p == Head(eventQueue)
       IN  /\ eventQueue' = Tail(eventQueue)
           /\ IF ~is_video_file(p) \/ p \in processing
              THEN UNCHANGED <<processing, handler>>
              ELSE /\ processing' = processing \cup {p}
                   /\ handler' = [pc |-> "process_file", path |-> p, raised |-> FALSE,
                                result |-> NoResult]
    /\ UNCHANGED <<fileAt, videosOf, attempted, late, notified, pipelineVars, sm, scoreVars, promptVars,
                   ctxCall>>

\* on_created, lines 60-86: process_file is called and its result examined
OnCreatedProcessFile ==
    /\ handler.pc = "process_file"
    /\ \E env \in ProcessFileEnvs :
          LET p == handler.path
              result == process_file(fileAt[p], env)
          IN  /\ videosOf' = [videosOf EXCEPT ![p] = IF result.created THEN @ + 1 ELSE @]
              /\ fileAt' = [fileAt EXCEPT ![p] = @ /\ ~result.moved]
              /\ handler' = [handler EXCEPT
                                !.pc = IF result.success THEN "pipeline" ELSE "finally",
                                !.result = result]
    /\ UNCHANGED <<eventQueue, processing, attempted, late, notified, pipelineVars, sm, scoreVars, promptVars,
                   ctxCall>>

\* on_created, lines 80-90: execute_pipeline(context) returns, or raises and
\* the exception is caught
OnCreatedPipeline ==
    /\ handler.pc = "pipeline"
    /\ \E outcome \in {"returned", "raised"} :
          handler' = [handler EXCEPT !.pc = "finally", !.raised = (outcome = "raised")]
    /\ UNCHANGED <<eventQueue, processing, fileAt, videosOf, attempted, late, notified,
                   pipelineVars, sm, scoreVars, promptVars, ctxCall>>

\* a handler that leaves the path in the set when the pipeline raised
on_created_finally_unless_raised(set, h) ==
    IF h.raised THEN set ELSE set \ {h.path}

\* on_created, lines 91-92: finally: self.processing.discard(file_path)
on_created_finally(set, h) == set \ {h.path}

OnCreatedFinally ==
    /\ handler.pc = "finally"
    /\ processing' = on_created_finally(processing, handler)
    /\ attempted' = [attempted EXCEPT ![handler.path] = TRUE]
    /\ handler' = HandlerIdle
    /\ UNCHANGED <<eventQueue, fileAt, videosOf, late, notified, pipelineVars, sm, scoreVars, promptVars,
                   ctxCall>>

\* ------------------------------------------------- segments and scores
\* a nullable column or keyword value: None, or the one value it holds
None == {}

Some(x) == {x}

Val(o) == CHOOSE x \in o : TRUE

\* scores, in hundredths (0.8 is 80)
ScorePool == {40, 80}

\* the five score columns of segment_scores (models.py:96-100)
Channels ==
    {"text_score", "vision_score", "audio_emphasis_score",
     "facial_emphasis_score", "cloud_score"}

\* the columns of segment_scores besides the key (models.py:96-102)
ScoreColumns == Channels \cup {"combined_score", "escalated_to_cloud"}

\* segment ids a caller may name: those of NumSegIds segments
SegIds == 1..NumSegIds

\* create_engine(db_url) on the default 'sqlite:///vid_clip_ai.db' with no
\* PRAGMA foreign_keys: the engine does not check segment_scores.segment_id
foreign_keys_enforced == FALSE

\* SegmentScore(segment_id=..., **scores): a column that is not given is NULL,
\* escalated_to_cloud defaults to False
SegmentScore(segment_id, scores) ==
    [c \in ScoreColumns \cup {"segment_id"} |->
        IF c = "segment_id" THEN segment_id
        ELSE IF c \in DOMAIN scores THEN scores[c]
        ELSE IF c = "escalated_to_cloud" THEN Some(FALSE)
        ELSE None]

\* the row of the segment, as session.query(SegmentScore)
\* .filter_by(segment_id=segment_id).first() finds it: its index, or 0
first_score(rows, segment_id) ==
    IF \E i \in DOMAIN rows : rows[i].segment_id = segment_id
    THEN CHOOSE i \in DOMAIN rows :
            /\ rows[i].segment_id = segment_id
            /\ \A j \in DOMAIN rows : rows[j].segment_id = segment_id => i <= j
    ELSE 0

\* an add_or_update_score that inserts without looking for the row
add_or_update_score_insert(rows, segs, segment_id, scores) ==
    [rows |-> Append(rows, SegmentScore(segment_id, scores)), exc |-> NoException]

\* DatabaseOperations.add_or_update_score(segment_id, **scores): the rows
\* afterwards and the exception raised, if any
add_or_update_score(rows, segs, segment_id, scores) ==
    LET i == first_score(rows, segment_id)
    IN  IF i # 0
        THEN [rows |-> [rows EXCEPT ![i] =
                          [c \in DOMAIN rows[i] |->
                              IF c \in DOMAIN scores /\ scores[c] # None
                              THEN scores[c] ELSE rows[i][c]]],
              exc |-> NoException]
        ELSE IF foreign_keys_enforced /\ segment_id \notin DOMAIN segs
        THEN [rows |-> rows,
              exc |-> [type |-> "IntegrityError", message |-> <<"FOREIGN KEY">>]]
        ELSE [rows |-> Append(rows, SegmentScore(segment_id, scores)),
              exc |-> NoException]

\* DatabaseOperations.add_segment: a segment row with the times it is given,
\* and no score row
add_segment(segs, start_time, end_time, source) ==
    Append(segs, [start_time |-> start_time, end_time |-> end_time,
                  source |-> source])

\* a text stage that stores the score scaled by the text weight of 0.30
save_segments_to_db_deflated(segs, rows, segments_data) ==
    LET n == Len(segments_data)
    IN  [segs |-> segs \o [k \in 1..n |->
                                [start_time |-> segments_data[k].start_time,
                                 end_time |-> segments_data[k].end_time,
                                 source |-> "asr"]],
         rows |-> rows \o
             [k \in 1..n |->
                 SegmentScore(Len(segs) + k,
                              [c \in {"text_score", "combined_score"} |->
                                  IF c = "text_score" THEN Some(segments_data[k].score)
                                  ELSE Some((30 * segments_data[k].score) \div 100)])],
         written |-> {Len(segs) + k : k \in 1..n},
         exc |-> NoException]

\* TextScoringAgent._save_segments_to_db: per element a Segment and its
\* SegmentScore(text_score = score, combined_score = score), committed
\* together; a score row that already has one of the new ids makes the flush
\* fail on the primary key and nothing is committed
save_segments_to_db(segs, rows, segments_data) ==
    LET n == Len(segments_data)
        ids == {Len(segs) + k : k \in 1..n}
    IN  IF \E i \in DOMAIN rows : rows[i].segment_id \in ids
        THEN [segs |-> segs, rows |-> rows, written |-> {},
              exc |-> [type |-> "IntegrityError", message |-> <<"PRIMARY KEY">>]]
        ELSE [segs |-> segs \o [k \in 1..n |->
                                [start_time |-> segments_data[k].start_time,
                                 end_time |-> segments_data[k].end_time,
                                 source |-> "asr"]],
              rows |-> rows \o
                  [k \in 1..n |->
                      SegmentScore(Len(segs) + k,
                                   [c \in {"text_score", "combined_score"} |->
                                       Some(segments_data[k].score)])],
              written |-> ids,
              exc |-> NoException]

\* vision_scoring.py:272-276 for one segment whose frames gave vision_score:
\* the row after it, unchanged when the segment has no score row
vision_update(rows, segment_id, vision_score) ==
    LET i == first_score(rows, segment_id)
    IN  IF i = 0 THEN rows
        ELSE LET text_score == IF rows[i].text_score = None THEN 0
                               ELSE Val(rows[i].text_score)
             IN  [rows EXCEPT ![i].vision_score = Some(vision_score),
                              ![i].combined_score =
                                  Some((text_score + vision_score) \div 2)]

\* the loop of VisionScoringAgent.execute, lines 221-289, over segments k..n
RECURSIVE vision_loop(_, _, _, _)
vision_loop(rows, env, k, n) ==
    IF k > n THEN rows
    ELSE vision_loop(IF env[k] = None THEN rows
                     ELSE vision_update(rows, k, Val(env[k])),
                     env, k + 1, n)

\* what the environment decides in one call of VisionScoringAgent.execute:
\* per segment, no frames or the vision_score the model gives
VisionEnvs(n) == [1..n -> {None} \cup {Some(v) : v \in ScorePool}]

\* VisionScoringAgent.execute, lines 196-315: the rows afterwards, the
\* segments it wrote and the error of the failure envelope, if it failed
VisionScoringAgent_execute(segs, rows, env) ==
    IF AgentDatabaseOperations.error # "none"
    THEN [rows |-> rows, written |-> {}, error |-> AgentDatabaseOperations.error]
    ELSE IF segs = <<>>
    THEN [rows |-> rows, written |-> {}, error |-> "ValueError"]
    ELSE IF /\ \E k \in DOMAIN segs : env[k] # None
            /\ "get_transcript_segments" \notin AgentDatabaseOperations.methods
    THEN [rows |-> rows, written |-> {}, error |-> "AttributeError"]
    ELSE [rows |-> vision_loop(rows, env, 1, Len(segs)),
          written |-> {k \in DOMAIN segs :
                          env[k] # None /\ first_score(rows, k) # 0},
          error |-> "none"]

\* ScoringRankingAgent._calculate_final_score: `pass`, so the call returns None
calculate_final_score(segment) == None

\* MicroEmphasisAgent.__init__: the ambiguous band [threshold_low,
\* threshold_high) of the configuration, in hundredths
confidence_threshold_low == 40

confidence_threshold_high == 65

\* MicroEmphasisAgent.execute: `pass`, so the call returns None and no
\* segment of the context is analysed
MicroEmphasisAgent_execute(rows, segments) ==
    [result |-> None, rows |-> rows, processed |-> {}]

\* QualityAssuranceAgent.execute: `pass`, so the call returns None and no
\* segment of the context is evaluated
QualityAssuranceAgent_execute(rows, ambiguous_segments) ==
    [result |-> None, rows |-> rows, evaluated |-> {}]

\* ScoringRankingAgent._rank_segments: `pass`, so the call returns None
rank_segments(segments) == None

\* segments handed to the ranking: {final_score, start_time}
RankInputs ==
    UNION {[1..n -> [final_score : ScorePool, start_time : {0, 5}]] : n \in 0..2}

\* keyword arguments a caller gives add_or_update_score
ScoreKwargs ==
    {[c \in {} |-> None],
     [c \in {"vision_score"} |-> Some(80)],
     [c \in {"vision_score"} |-> None],
     [c \in {"escalated_to_cloud"} |-> Some(TRUE)],
     [c \in {"escalated_to_cloud"} |-> Some(FALSE)],
     [c \in {"cloud_score", "escalated_to_cloud"} |->
         IF c = "cloud_score" THEN Some(40) ELSE Some(TRUE)],
     [c \in {"audio_emphasis_score", "facial_emphasis_score"} |-> Some(40)]}

\* prompt output of the text scoring model: {start_time, end_time, score, reason}
SegmentsData ==
    UNION {[1..n -> {[start_time |-> 0, end_time |-> 5, score |-> v] :
                        v \in ScorePool}] : n \in 1..MaxSegs}

\* no operation on the scores yet
NoOp == [op |-> "none", segment_id |-> 0, existed |-> FALSE, written |-> {},
         exc |-> NoException, final |-> None, input |-> <<>>]

\* an empty store
InitScores ==
    /\ segmentRows = <<>>
    /\ scoreRows = <<>>
    /\ fieldWrites = {}
    /\ lastOp = NoOp
    /\ scoreOps = 0

\* ------------------------------------------------- protocols/prompt_protocols.py
\* PROTOCOL_MAP: the prompt names that have an output protocol
PROTOCOL_MAP == {"text_scoring", "vision_scoring", "quality_assurance"}

\* the object restricted to the fields of the model (pydantic ignores extra
\* fields and model_dump() returns the declared ones)
model_dump(obj, fields) == [f \in (DOMAIN obj \cap fields) |-> obj[f]]

\* str.lower() on the recommendation strings of the inputs
lower(s) == IF s = "ACCEPT" THEN "accept" ELSE s

min_length_unchecked(value, n) == TRUE

\* Field(min_length=n) on a string or a list
min_length(value, n) == Len(value) >= n

TextSegmentFields == {"start_time", "end_time", "score", "reason"}

\* TextSegment: start_time >= 0, end_time >= 0, score in [0,1], reason of at
\* least 10 characters; validate_times compares end_time with start_time only
\* when start_time itself validated. errors holds the names of the failing
\* fields
TextSegment(seg) ==
    LET has(f) == f \in DOMAIN seg
        start_ok == has("start_time") /\ seg.start_time >= 0
        errors ==
            (TextSegmentFields \ DOMAIN seg)
            \cup {f \in {"start_time"} : has(f) /\ seg.start_time < 0}
            \cup {f \in {"end_time"} :
                    has(f) /\ (\/ seg.end_time < 0
                               \/ start_ok /\ seg.end_time <= seg.start_time)}
            \cup {f \in {"score"} : has(f) /\ (seg.score < 0 \/ seg.score > 100)}
            \cup {f \in {"reason"} : has(f) /\ ~min_length(seg.reason, 10)}
    IN  [errors |-> errors, value |-> model_dump(seg, TextSegmentFields)]

\* TextScoringOutput: segments is a list of TextSegment; validate_segments
\* rejects the empty list
TextScoringOutput(data) ==
    IF "segments" \notin DOMAIN data
    THEN [errors |-> {"segments"}, value |-> model_dump(data, {"segments"})]
    ELSE LET items == [i \in DOMAIN data.segments |-> TextSegment(data.segments[i])]
             item_errors == UNION {items[i].errors : i \in DOMAIN items}
         IN  [errors |-> IF item_errors # {} THEN item_errors
                         ELSE IF Len(data.segments) = 0 THEN {"segments"}
                         ELSE {},
              value |-> [segments |-> [i \in DOMAIN items |-> items[i].value]]]

VisionScoringFields ==
    {"vision_score", "key_visual_elements", "emotional_intensity", "reason"}

\* VisionScoringOutput: vision_score in [0,1], at least one visual element,
\* reason of at least 10 characters
VisionScoringOutput(data) ==
    LET has(f) == f \in DOMAIN data
        errors ==
            (VisionScoringFields \ DOMAIN data)
            \cup {f \in {"vision_score"} :
                    has(f) /\ (data.vision_score < 0 \/ data.vision_score > 100)}
            \cup {f \in {"key_visual_elements"} :
                    has(f) /\ ~min_length(data.key_visual_elements, 1)}
            \cup {f \in {"reason"} : has(f) /\ ~min_length(data.reason, 10)}
    IN  [errors |-> errors, value |-> model_dump(data, VisionScoringFields)]

QualityAssuranceFields ==
    {"confidence_score", "recommendation", "key_factors", "reason"}

\* QualityAssuranceOutput: confidence_score in [0,1], at least one key factor,
\* reason of at least 10 characters; validate_recommendation accepts the
\* three values in any case and returns the lower-cased string
QualityAssuranceOutput(data) ==
    LET has(f) == f \in DOMAIN data
        errors ==
            (QualityAssuranceFields \ DOMAIN data)
            \cup {f \in {"confidence_score"} :
                    has(f) /\ (data.confidence_score < 0 \/ data.confidence_score > 100)}
            \cup {f \in {"recommendation"} :
                    has(f) /\ lower(data.recommendation)
                                 \notin {"accept", "reject", "uncertain"}}
            \cup {f \in {"key_factors"} : has(f) /\ ~min_length(data.key_factors, 1)}
            \cup {f \in {"reason"} : has(f) /\ ~min_length(data.reason, 10)}
        dumped == model_dump(data, QualityAssuranceFields)
    IN  [errors |-> errors,
         value |-> IF has("recommendation")
                   THEN [dumped EXCEPT !.recommendation = lower(@)]
                   ELSE dumped]

\* output_protocol.model_validate(data) for the protocol of the prompt
model_validate(protocol, data) ==
    CASE protocol = "text_scoring" -> TextScoringOutput(data)
      [] protocol = "vision_scoring" -> VisionScoringOutput(data)
      [] OTHER -> QualityAssuranceOutput(data)

\* a piece of response text: white space, a code-fence marker (fence_json is
\* the marker followed by "json", fence the bare marker), prose, a whole
\* JSON document, or the part of a JSON document before (json_open) or after
\* (json_close) a fence marker that stands inside one of its strings
Tok(kind, doc) == [kind |-> kind, doc |-> doc]

NoDoc == [none |-> TRUE]

WS == Tok("ws", NoDoc)

FenceJson == Tok("fence_json", NoDoc)

Fence == Tok("fence", NoDoc)

Prose == Tok("prose", NoDoc)

Json(doc) == Tok("json", doc)

JsonOpen(doc) == Tok("json_open", doc)

JsonClose(doc) == Tok("json_close", doc)

\* the text before the first piece of one of the kinds (all of it if none)
Before(text, kinds) ==
    LET hits == {i \in DOMAIN text : text[i].kind \in kinds}
    IN  IF hits = {} THEN text
        ELSE SubSeq(text, 1, (CHOOSE i \in hits : \A j \in hits : i <= j) - 1)

\* the text after the first piece of the kind
After(text, kind) ==
    LET hits == {i \in DOMAIN text : text[i].kind = kind}
    IN  SubSeq(text, (CHOOSE i \in hits : \A j \in hits : i <= j) + 1, Len(text))

\* str.strip()
RECURSIVE strip(_)
strip(text) ==
    IF text = <<>> THEN text
    ELSE IF Head(text).kind = "ws" THEN strip(Tail(text))
    ELSE IF text[Len(text)].kind = "ws" THEN strip(SubSeq(text, 1, Len(text) - 1))
    ELSE text

Contains(text, kind) == \E i \in DOMAIN text : text[i].kind = kind

\* Prompt._clean_llm_output: text.split('```json')[1].split('```')[0], or
\* text.split('```')[1].split('```')[0], then strip()
clean_llm_output(text) ==
    IF Contains(text, "fence_json")
    THEN strip(Before(After(text, "fence_json"), {"fence_json", "fence"}))
    ELSE IF Contains(text, "fence")
    THEN strip(Before(After(text, "fence"), {"fence"}))
    ELSE strip(text)

\* json.loads: one JSON document, white space around it allowed; a fence
\* marker inside a string of the document is part of the document
json_loads(text) ==
    LET t == strip(text)
    IN  IF Len(t) = 1 /\ t[1].kind = "json"
        THEN [ok |-> TRUE, data |-> t[1].doc]
        ELSE IF /\ Len(t) = 3
                /\ t[1].kind = "json_open"
                /\ t[2].kind \in {"fence", "fence_json"}
                /\ t[3].kind = "json_close"
                /\ t[1].doc = t[3].doc
        THEN [ok |-> TRUE, data |-> t[1].doc]
        ELSE [ok |-> FALSE, data |-> NoDoc]

NoError == [type |-> "none", message |-> "", fields |-> {}]

\* ValueError(f"Failed to parse LLM output as JSON: {e}")
json_decode_error ==
    [type |-> "ValueError", message |-> "Failed to parse LLM output as JSON",
     fields |-> {}]

validation_error_as_decode_error(fields) == json_decode_error

\* ValueError(f"LLM output failed validation: {e}"); pydantic's message
\* names every failing field
validation_error(fields) ==
    [type |-> "ValueError", message |-> "LLM output failed validation",
     fields |-> fields]

\* Prompt.parse_output
parse_output(protocol, output_text) ==
    LET parsed == json_loads(clean_llm_output(output_text))
        validated == model_validate(protocol, parsed.data)
    IN  IF ~parsed.ok
        THEN [ok |-> FALSE, record |-> None, error |-> json_decode_error]
        ELSE IF validated.errors # {}
        THEN [ok |-> FALSE, record |-> None,
              error |-> validation_error(validated.errors)]
        ELSE [ok |-> TRUE, record |-> Some(validated.value), error |-> NoError]

\* a piece of a template: literal text, a named replacement field {name} or
\* a positional one {}
Part(kind, name) == [kind |-> kind, name |-> name]

\* the names of input_variables that the keyword arguments lack, in order
RECURSIVE missing_variables_first(_, _)
missing_variables_first(input_variables, kwargs) ==
    IF input_variables = <<>> THEN <<>>
    ELSE IF Head(input_variables) \notin DOMAIN kwargs
    THEN <<Head(input_variables)>>
    ELSE missing_variables_first(Tail(input_variables), kwargs)

RECURSIVE missing_variables(_, _)
missing_variables(input_variables, kwargs) ==
    IF input_variables = <<>> THEN <<>>
    ELSE (IF Head(input_variables) \notin DOMAIN kwargs
          THEN <<Head(input_variables)>> ELSE <<>>)
         \o missing_variables(Tail(input_variables), kwargs)

\* str.format(**kwargs): every replacement field is substituted, or the
\* call raises KeyError (unknown name) or IndexError (positional field)
str_format(template, kwargs) ==
    IF \E i \in DOMAIN template : template[i].kind = "index"
    THEN [exc |-> "IndexError", text |-> <<>>]
    ELSE IF \E i \in DOMAIN template :
               template[i].kind = "field" /\ template[i].name \notin DOMAIN kwargs
    THEN [exc |-> "KeyError", text |-> <<>>]
    ELSE [exc |-> "none",
          text |-> [i \in DOMAIN template |->
                      IF template[i].kind = "field"
                      THEN Part("text", kwargs[template[i].name])
                      ELSE template[i]]]

\* Prompt.format
format(template, input_variables, kwargs) ==
    LET missing == missing_variables(input_variables, kwargs)
        formatted == str_format(template, kwargs)
    IN  IF missing # <<>>
        THEN [ok |-> FALSE, text |-> None,
              error |-> [type |-> "ValueError",
                         message |-> "Missing required input variables",
                         names |-> missing]]
        ELSE IF formatted.exc = "KeyError"
        THEN [ok |-> FALSE, text |-> None,
              error |-> [type |-> "ValueError",
                         message |-> "Template formatting error", names |-> <<>>]]
        ELSE IF formatted.exc # "none"
        THEN [ok |-> FALSE, text |-> None,
              error |-> [type |-> formatted.exc, message |-> "", names |-> <<>>]]
        ELSE [ok |-> TRUE, text |-> Some(formatted.text),
              error |-> [type |-> "none", message |-> "", names |-> <<>>]]

\* ---- inputs of parse_output and format
Reasons == {"too short", "a long enough reason"}

GoodSegment ==
    [start_time |-> 0, end_time |-> 5, score |-> 50, reason |-> "a long enough reason"]

SegmentInputs ==
    [start_time : {-1, 0, 5}, end_time : {0, 5}, score : {50, 150}, reason : Reasons]
    \cup [start_time : {-1, 0}, end_time : {5}, score : {50}]

GoodDoc == [segments |-> <<GoodSegment>>]

\* a valid text-scoring document whose reason holds a fence marker
FenceInReasonDoc ==
    [segments |-> <<[start_time |-> 0, end_time |-> 5, score |-> 50,
                     reason |-> "speaker types <fence> in editor"]>>]

TextScoringDocs ==
    {[segments |-> <<>>], [note |-> "no segments found"],
     [segments |-> <<GoodSegment>>, reasoning |-> "picked the hook"]}
    \cup {[segments |-> <<s>>] : s \in SegmentInputs}
    \cup {[segments |-> <<GoodSegment, s>>] :
             s \in [start_time : {5}, end_time : {5, 9}, score : {50}, reason : Reasons]}

VisionScoringDocs ==
    [vision_score : {50, 150}, key_visual_elements : {<<>>, <<"face">>},
     emotional_intensity : {"high"}, reason : Reasons]

QualityAssuranceDocs ==
    [confidence_score : {50, 150}, recommendation : {"accept", "ACCEPT", "maybe"},
     key_factors : {<<>>, <<"pacing">>}, reason : Reasons]

Docs == TextScoringDocs \cup VisionScoringDocs \cup QualityAssuranceDocs

\* the response wrapped in code fences: "```json\n" + text + "\n```"
WrapJson(text) == <<FenceJson, WS>> \o text \o <<WS, Fence>>

\* "```\n" + text + "\n```"
WrapPlain(text) == <<Fence, WS>> \o text \o <<WS, Fence>>

\* response texts without fences of their own
PlainTexts ==
    {<<>>, <<Prose>>, <<WS>>}
    \cup {<<Json(d)>> : d \in Docs}
    \cup {<<WS, Json(GoodDoc), WS>>, <<Prose, WS, Json(GoodDoc)>>,
          <<Json(GoodDoc), WS, Json(GoodDoc)>>}

\* response texts that hold fence markers
FencedTexts ==
    {<<JsonOpen(FenceInReasonDoc), Fence, JsonClose(FenceInReasonDoc)>>,
     <<Prose, WS, FenceJson, WS, Json(GoodDoc), WS, Fence, WS, Prose>>,
     <<Fence, Json(GoodDoc), Fence>>,
     <<FenceJson, WS, Json(GoodDoc), WS>>}

Wrappings == {"none", "json", "plain"}

Wrap(wrapping, text) ==
    CASE wrapping = "json" -> WrapJson(text)
      [] wrapping = "plain" -> WrapPlain(text)
      [] OTHER -> text

Names == {"transcript_text", "video_title", "max_segments"}

TemplateInputs ==
    {<<Part("text", "Find the clips.")>>,
     <<Part("text", "Transcript: "), Part("field", "transcript_text")>>,
     <<Part("field", "video_title"), Part("text", ": "),
       Part("field", "transcript_text")>>,
     <<Part("field", "transcript_text"), Part("index", "")>>}

InputVariables ==
    {<<>>, <<"transcript_text">>, <<"transcript_text", "video_title">>,
     <<"video_title", "max_segments", "transcript_text">>}

KwargsInputs == UNION {[S -> {"some text"}] : S \in SUBSET Names}

NoProtoCall ==
    [fn |-> "none", protocol |-> "", wrapping |-> "none", base |-> <<>>,
     text |-> <<>>, template |-> <<>>, input_variables |-> <<>>,
     kwargs |-> <<>>, outcome |-> [ok |-> FALSE]]

\* ------------------------------------------------- prompts/provider.py
PromptNames == {"text_scoring", "quality_assurance", "rendering"}

Versions == {1, 2}

\* what <registry>/<prompt_name>/v<version>.yaml holds: a definition that
\* validates, one whose template is shorter than 50 characters, text that is
\* not YAML, or no file
PromptFiles(prompt_name, version) ==
    CASE prompt_name = "text_scoring" /\ version = 1 -> "valid"
      [] prompt_name = "text_scoring" /\ version = 2 -> "invalid"
      [] prompt_name = "quality_assurance" /\ version = 1 -> "valid"
      [] prompt_name = "rendering" /\ version = 1 -> "valid"
      [] prompt_name = "rendering" /\ version = 2 -> "malformed"
      [] OTHER -> "missing"

cache_key_name_only(prompt_name, version) == prompt_name

\* cache_key = f"{prompt_name}_v{version}"
cache_key(prompt_name, version) == prompt_name \o "_v" \o ToString(version)

\* PromptProvider.get: self_cache is the set of <<cache_key, instance>> entries,
\* constructed the number of Prompt objects constructed so far
get(self_cache, constructed, prompt_name, version) ==
    LET key == cache_key(prompt_name, version)
        hit == {e \in self_cache : e[1] = key}
        file == PromptFiles(prompt_name, version)
        fail(exc, loaded, validated) ==
            [cache |-> self_cache, instances |-> constructed, result |-> None,
             exc |-> exc, loaded |-> loaded, validated |-> validated]
    IN  IF hit # {}
        THEN [cache |-> self_cache, instances |-> constructed,
              result |-> Some((CHOOSE e \in hit : TRUE)[2]),
              exc |-> "none", loaded |-> FALSE, validated |-> FALSE]
        ELSE IF file = "missing" THEN fail("FileNotFoundError", FALSE, FALSE)
        ELSE IF file = "malformed" THEN fail("YAMLError", TRUE, FALSE)
        ELSE IF prompt_name \notin PROTOCOL_MAP THEN fail("ValueError", TRUE, FALSE)
        ELSE IF file = "invalid" THEN fail("ValueError", TRUE, TRUE)
        ELSE [cache |-> self_cache \cup {<<key, constructed + 1>>},
              instances |-> constructed + 1,
              result |-> Some(constructed + 1),
              exc |-> "none", loaded |-> TRUE, validated |-> TRUE]

\* PromptProvider.clear_cache
clear_cache(self_cache) == {}

InitPrompts ==
    /\ protoCall = NoProtoCall
    /\ cache = {}
    /\ instances = 0
    /\ providerLog = <<>>

\* ------------------------------------------------- store inputs
\* DatabaseOperations.create_video: Video(file_path, user_id,
\* watch_directory_id, **kwargs); the status of the new row is kwargs'
\* status, or the column default when kwargs has none
create_video(kwargs) ==
    IF "status" \in DOMAIN kwargs THEN kwargs.status ELSE "pending"

\* keyword arguments of create_video: none, process_file's, and one without
\* a status
CreateKwargs ==
    {[k \in {} |-> 0],
     [status |-> "ingested", duration |-> 60],
     [duration |-> 60]}

\* segments as a caller hands them to the store: end after, at and before start
TimedSegPool ==
    {[start_time |-> 0, end_time |-> 5, text |-> "a"],
     [start_time |-> 5, end_time |-> 5, text |-> "b"],
     [start_time |-> 5, end_time |-> 0, text |-> "c"]}

TimedTranscripts == UNION {[1..n -> TimedSegPool] : n \in 1..MaxSegs}

\* ------------------------------------------------- PipelineContext
\* pathlib.Path and str() of it
Path(s) == [path |-> s]

str(p) == p.path

\* the dataclass PipelineContext (its fields, in declaration order)
PipelineContext(video_id, user_id, base_path, video_path, watch_directory_id, metadata) ==
    [video_id |-> video_id, user_id |-> user_id, base_path |-> base_path,
     video_path |-> video_path, watch_directory_id |-> watch_directory_id,
     metadata |-> metadata]

\* PipelineContext.to_dict: a dict literal whose last item is **self.metadata,
\* so a key of metadata replaces an earlier item with the same key
to_dict(self) ==
    LET own == [video_id |-> self.video_id,
                user_id |-> self.user_id,
                base_path |-> str(self.base_path),
                video_path |-> self.video_path,
                watch_directory_id |-> self.watch_directory_id]
    IN  [k \in DOMAIN own \cup DOMAIN self.metadata |->
            IF k \in DOMAIN self.metadata THEN self.metadata[k] ELSE own[k]]

\* the metadata process_file puts into the context it builds
FileMetadata ==
    [file_name |-> "a.mp4", file_size_mb |-> 12, duration |-> 60,
     width |-> 1920, height |-> 1080]

\* the context process_file builds for the video it registered
process_file_context(v) ==
    PipelineContext(v, "user" \o ToString(v), Path("/data/user" \o ToString(v)),
                    "/data/user" \o ToString(v) \o "/processed/a.mp4", Some(1),
                    FileMetadata)

\* metadata a context may carry: none, what process_file puts there, and
\* dicts with a key that is also a field name of the context
MetadataInputs ==
    {[k \in {} |-> 0],
     FileMetadata,
     [title |-> "talk"],
     [video_id |-> 1],
     [video_id |-> 2],
     [user_id |-> "user2"],
     [base_path |-> "/data/user2"],
     [video_path |-> "/data/user2/processed/b.mp4"],
     [watch_directory_id |-> None]}

\* the contexts to_dict is applied to
ContextInputs ==
    {PipelineContext(v, u, Path(b), b \o "/processed/a.mp4", w, m) :
        v \in 1..NumVideos, u \in {"user1", "user2"},
        b \in {"/data/user1", "/data/user2"}, w \in {None, Some(1)},
        m \in MetadataInputs}

NoCtxCall == [called |-> FALSE, self |-> process_file_context(1), dict |-> <<>>]

\* context.video_id, the key of every store call of the orchestrator
context_video_id_shared(ctx) == 1

context_video_id(ctx) == ctx.video_id

\* what a stage method leaves of the context it was given: it reads
\* context.video_id and context.to_dict() and assigns no attribute; the
\* agent's result stays in the local `result`
context_after_stage_merged(ctx, result) ==
    [ctx EXCEPT !.metadata =
        [k \in DOMAIN @ \cup {"transcript_segments"} |->
            IF k = "transcript_segments" THEN result.transcript_segments ELSE @[k]]]

context_after_stage(ctx, result) == ctx

\* ------------------------------------------------- the state machine
\* bookkeeping of one execute_pipeline call
NoRun ==
    [stage |-> 0,              \* index in STAGES of the stage call to make next
     invoked |-> <<>>,         \* stages whose agent was invoked, in order
     succeeded |-> <<>>,       \* stages whose agent returned success
     failed |-> <<>>,          \* stages whose agent returned success = False
     output |-> <<>>,          \* transcript_segments of the envelope that succeeded
     exc |-> NoException,      \* the exception being handled, or the one raised
     raisedAny |-> FALSE,      \* an exception was raised at some point of the call
     ret |-> "none",           \* the value execute_pipeline returned
     logStart |-> 0,           \* length of the video's log when the call began
     startStatus |-> Absent,   \* the video's status when the call began
     logFailed |-> FALSE,      \* log_step raised while a failure was handled
     origError |-> <<>>]       \* message of the failure that ended the stages

\* no call of the state machine made yet
NoCall == [current |-> "", next_state |-> "", called |-> "none", exc |-> NoException,
           answer |-> FALSE]

\* The store after registration: each of the first NumVideos ids has the row
\* FileWatcherAgent.process_file created (file_watcher.py:169-204), with
\* status 'ingested' and its 'ingest' entry logged; the last id has no row.
Init ==
    /\ videoStatus = [v \in Videos |->
                         IF v <= NumVideos THEN VideoState.INGESTED ELSE Absent]
    /\ statusWriter = [v \in Videos |->
                          IF v <= NumVideos THEN "file_watcher" ELSE "none"]
    /\ transcript = [v \in Videos |-> <<>>]
    /\ log = [v \in Videos |->
                  IF v <= NumVideos
                  THEN log_step(<<>>, "ingest", "ok", <<"File ingested">>)
                  ELSE <<>>]
    /\ pc = [v \in Videos |-> "idle"]
    /\ run = [v \in Videos |-> NoRun]
    /\ runs = 0
    /\ dirs = [v \in Videos |-> InitDirs(v)]
    /\ context = [v \in Videos |-> process_file_context(v)]
    /\ ctxCall = NoCtxCall
    /\ sm = NoCall
    /\ InitWatch
    /\ InitScores
    /\ InitPrompts

\* execute_pipeline, lines 66-73: the call begins and ensure_directories runs
ExecutePipelineBegin(v) ==
    /\ pc[v] = "idle"
    /\ runs < MaxRuns
    /\ runs' = runs + 1
    /\ \E fault \in MkdirFaults :
          LET k == context_video_id(context[v])
              fresh == [NoRun EXCEPT !.logStart = Len(log[k]),
                                     !.startStatus = videoStatus[k]]
              made == ensure_directories(dirs[v], fault)
          IN  /\ dirs' = [dirs EXCEPT ![v] = made.dirs]
              /\ IF made.exc = NoException
                 THEN /\ pc' = [pc EXCEPT ![v] = "stage"]
                      /\ run' = [run EXCEPT ![v] = [fresh EXCEPT !.stage = 1]]
                 ELSE /\ pc' = [pc EXCEPT ![v] = "except"]
                      /\ run' = [run EXCEPT ![v] =
                                    [fresh EXCEPT !.exc = made.exc,
                                                  !.raisedAny = TRUE,
                                                  !.origError = made.exc.message]]
    /\ UNCHANGED <<videoStatus, statusWriter, transcript, log, context, sm, watchVars,
                   scoreVars, promptVars, ctxCall>>

\* every way the stage call `name` of execute_pipeline can go when the
\* context's video_id is k
StageCalls(k, name) ==
    IF name = "transcription"
    THEN {[invoked |-> TRUE, result |-> a.result,
           eff |-> run_transcription(a.status, a.writer, a.transcript, a.log,
                                     a.result, fault)] :
             a \in AgentOutcomes(videoStatus[k], statusWriter[k], transcript[k], log[k]),
             fault \in StoreFaults}
    ELSE {[invoked |-> FALSE, result |-> Envelope(FALSE, <<>>, <<>>),
           eff |-> Effect(videoStatus[k], statusWriter[k], transcript[k], log[k],
                          run_placeholder, NoException, FALSE)]}

\* execute_pipeline, lines 75-98: one `if not self._run_x(context): return False`
RunStage(v) ==
    /\ pc[v] = "stage"
    /\ LET i == run[v].stage
           name == STAGES[i]
           k == context_video_id(context[v])
       IN  \E c \in StageCalls(k, name) :
              LET eff == c.eff
                  n == next_stage(i, eff.ret)
                  r1 == [run[v] EXCEPT
                            !.invoked = IF c.invoked THEN Append(@, name) ELSE @,
                            !.succeeded = IF c.invoked /\ c.result.success
                                          THEN Append(@, name) ELSE @,
                            !.failed = IF c.invoked /\ ~c.result.success
                                       THEN Append(@, name) ELSE @,
                            !.output = IF c.invoked /\ c.result.success
                                       THEN c.result.transcript_segments ELSE @,
                            !.origError = IF c.invoked /\ ~c.result.success
                                          THEN c.result.errors
                                          ELSE IF eff.ret = "raise" THEN eff.exc.message
                                          ELSE @,
                            !.logFailed = @ \/ eff.logFailed]
              IN  /\ videoStatus' = [videoStatus EXCEPT ![k] = eff.status]
                  /\ statusWriter' = [statusWriter EXCEPT ![k] = eff.writer]
                  /\ transcript' = [transcript EXCEPT ![k] = eff.transcript]
                  /\ log' = [log EXCEPT ![k] = eff.log]
                  /\ context' = [context EXCEPT ![v] =
                                    IF c.invoked THEN context_after_stage(@, c.result)
                                    ELSE @]
                  /\ IF eff.ret = "raise"
                     THEN /\ pc' = [pc EXCEPT ![v] = "except"]
                          /\ run' = [run EXCEPT ![v] =
                                        [r1 EXCEPT !.exc = eff.exc, !.raisedAny = TRUE]]
                     ELSE IF n = 0
                     THEN /\ pc' = [pc EXCEPT ![v] = "returned"]
                          /\ run' = [run EXCEPT ![v] = [r1 EXCEPT !.ret = "False"]]
                     ELSE IF n > Len(STAGES)
                     THEN /\ pc' = [pc EXCEPT ![v] = "returned"]
                          /\ run' = [run EXCEPT ![v] = [r1 EXCEPT !.ret = "True"]]
                     ELSE /\ pc' = [pc EXCEPT ![v] = "stage"]
                          /\ run' = [run EXCEPT ![v] = [r1 EXCEPT !.stage = n]]
    /\ UNCHANGED <<runs, dirs, sm, watchVars, scoreVars, promptVars, ctxCall>>

\* execute_pipeline, lines 100-109: the except branch
HandleException(v) ==
    /\ pc[v] = "except"
    /\ \E fault \in StoreFaults \ {"add_transcript_segments"} :
          LET k == context_video_id(context[v])
              us == update_state(videoStatus[k], VideoState.ERROR, fault)
              e == IF us.exc # NoException THEN us.exc
                   ELSE IF fault = "log_step" THEN StoreError
                   ELSE NoException
          IN  /\ videoStatus' = [videoStatus EXCEPT ![k] = us.status]
              /\ statusWriter' = [statusWriter EXCEPT ![k] =
                                     IF us.status # videoStatus[k] THEN "orchestrator"
                                     ELSE @]
              /\ IF e # NoException
                 THEN /\ pc' = [pc EXCEPT ![v] = "raised"]
                      /\ run' = [run EXCEPT ![v].exc = e,
                                            ![v].logFailed = @ \/ (us.exc = NoException)]
                      /\ log' = log
                 ELSE /\ pc' = [pc EXCEPT ![v] = "returned"]
                      /\ run' = [run EXCEPT ![v].ret = "False"]
                      /\ log' = [log EXCEPT ![k] =
                                    log_step(@, "pipeline", "fail", run[v].exc.message)]
    /\ UNCHANGED <<transcript, runs, dirs, context, sm, watchVars, scoreVars,
                   promptVars, ctxCall>>

\* execute_pipeline has returned or raised and its caller goes on
\* (VideoFileHandler.on_created, file_watcher.py:83-92, which catches what
\* the call raises)
ExecutePipelineEnd(v) ==
    /\ pc[v] \in {"returned", "raised"}
    /\ pc' = [pc EXCEPT ![v] = "idle"]
    /\ run' = [run EXCEPT ![v] = NoRun]
    /\ UNCHANGED <<videoStatus, statusWriter, transcript, log, runs, dirs, context, sm,
                   watchVars, scoreVars, promptVars, ctxCall>>

Next ==
    \E v \in Videos :
        \/ ExecutePipelineBegin(v)
        \/ RunStage(v)
        \/ HandleException(v)
        \/ ExecutePipelineEnd(v)

Spec == Init /\ [][Next]_vars

\* ------------------------------------------------- the state machine alone
\* status strings a caller may hand to the state machine: the seven state
\* names, 'pending' (the column default, models.py:51) and a misspelling
StateInputs == StateNames \cup {"pending", "transcribd"}

\* StateMachine.validate_transition(current, next_state) is called
CallValidateTransition ==
    /\ \E current \in StateInputs, next_state \in StateInputs :
          sm' = [current |-> current, next_state |-> next_state,
                 called |-> "validate_transition",
                 exc |-> validate_transition(current, next_state),
                 answer |-> FALSE]
    /\ UNCHANGED <<pipelineVars, watchVars, scoreVars, promptVars, ctxCall>>

\* StateMachine.can_transition(current, next_state) is called with two members
CallCanTransition ==
    /\ \E current \in StateNames, next_state \in StateNames :
          sm' = [current |-> current, next_state |-> next_state,
                 called |-> "can_transition",
                 exc |-> NoException,
                 answer |-> can_transition(VideoStateByValue(current),
                                           VideoStateByValue(next_state))]
    /\ UNCHANGED <<pipelineVars, watchVars, scoreVars, promptVars, ctxCall>>

NextSM == CallValidateTransition \/ CallCanTransition

SpecSM == Init /\ [][NextSM]_vars

\* ------------------------------------------------- the file watcher alone
NextWatch ==
    \/ \E p \in Paths : Notify(p)
    \/ OnCreatedBegin
    \/ OnCreatedProcessFile
    \/ OnCreatedPipeline
    \/ OnCreatedFinally

SpecWatch == Init /\ [][NextWatch]_vars

\* the observer's dispatch thread keeps running: an event that is queued is
\* handled, and a handler that has begun goes on to its end
SpecWatchFair ==
    /\ SpecWatch
    /\ WF_vars(OnCreatedBegin)
    /\ WF_vars(OnCreatedProcessFile)
    /\ WF_vars(OnCreatedPipeline)
    /\ WF_vars(OnCreatedFinally)

\* ------------------------------------------------- segments and scores alone
\* the fields a stage wrote for the segments it wrote
StageWrites(ids, fields, stage) == {<<id, f, stage>> : id \in ids, f \in fields}

\* DatabaseOperations.add_segment is called
AddSegment ==
    /\ scoreOps < MaxScoreOps
    /\ Len(segmentRows) < NumSegIds
    /\ scoreOps' = scoreOps + 1
    /\ segmentRows' = add_segment(segmentRows, 0, 5, "local_vlm")
    /\ lastOp' = [NoOp EXCEPT !.op = "add_segment",
                              !.segment_id = Len(segmentRows) + 1]
    /\ UNCHANGED <<scoreRows, fieldWrites, pipelineVars, sm, watchVars, promptVars, ctxCall>>

\* TextScoringAgent._save_segments_to_db is called with the model's segments
SaveSegmentsToDb ==
    /\ scoreOps < MaxScoreOps
    /\ scoreOps' = scoreOps + 1
    /\ \E data \in SegmentsData :
          /\ Len(segmentRows) + Len(data) <= NumSegIds
          /\ LET r == save_segments_to_db(segmentRows, scoreRows, data)
             IN  /\ segmentRows' = r.segs
                 /\ scoreRows' = r.rows
                 /\ fieldWrites' = fieldWrites \cup
                        StageWrites(r.written, {"text_score", "combined_score"},
                                    "text_scoring")
                 /\ lastOp' = [NoOp EXCEPT !.op = "_save_segments_to_db",
                                           !.written = r.written,
                                           !.exc = r.exc]
    /\ UNCHANGED <<pipelineVars, sm, watchVars, promptVars, ctxCall>>

\* DatabaseOperations.add_or_update_score is called
AddOrUpdateScore ==
    /\ scoreOps < MaxScoreOps
    /\ scoreOps' = scoreOps + 1
    /\ \E segment_id \in SegIds, scores \in ScoreKwargs :
          LET r == add_or_update_score(scoreRows, segmentRows, segment_id, scores)
          IN  /\ scoreRows' = r.rows
              /\ lastOp' = [NoOp EXCEPT !.op = "add_or_update_score",
                                        !.segment_id = segment_id,
                                        !.existed = segment_id \in DOMAIN segmentRows,
                                        !.exc = r.exc]
    /\ UNCHANGED <<segmentRows, fieldWrites, pipelineVars, sm, watchVars, promptVars, ctxCall>>

\* VisionScoringAgent.execute is called for the video of the segments
VisionScoring ==
    /\ scoreOps < MaxScoreOps
    /\ scoreOps' = scoreOps + 1
    /\ \E env \in VisionEnvs(Len(segmentRows)) :
          LET r == VisionScoringAgent_execute(segmentRows, scoreRows, env)
          IN  /\ scoreRows' = r.rows
              /\ fieldWrites' = fieldWrites \cup
                     StageWrites(r.written, {"vision_score", "combined_score"},
                                 "vision_scoring")
              /\ lastOp' = [NoOp EXCEPT !.op = "vision_scoring",
                                        !.written = r.written,
                                        !.exc = IF r.error = "none" THEN NoException
                                                ELSE [type |-> r.error,
                                                      message |-> <<>>]]
    /\ UNCHANGED <<segmentRows, pipelineVars, sm, watchVars, promptVars, ctxCall>>

\* ScoringRankingAgent._calculate_final_score is called with a segment's scores
CalculateFinalScore ==
    /\ \E i \in DOMAIN scoreRows :
          lastOp' = [NoOp EXCEPT !.op = "_calculate_final_score",
                                 !.segment_id = scoreRows[i].segment_id,
                                 !.final = calculate_final_score(scoreRows[i])]
    /\ UNCHANGED <<segmentRows, scoreRows, fieldWrites, scoreOps, pipelineVars, sm,
                   watchVars, promptVars, ctxCall>>

\* the segment's combined score lies in the ambiguous band
Ambiguous(row) ==
    /\ row.combined_score # None
    /\ confidence_threshold_low <= Val(row.combined_score)
    /\ Val(row.combined_score) < confidence_threshold_high

\* the segments of the store whose score is in the ambiguous band
AmbiguousSegments ==
    {scoreRows[i].segment_id : i \in {j \in DOMAIN scoreRows : Ambiguous(scoreRows[j])}}

\* MicroEmphasisAgent.execute is called with the ambiguous segments
MicroEmphasis ==
    /\ scoreOps < MaxScoreOps
    /\ scoreOps' = scoreOps + 1
    /\ LET r == MicroEmphasisAgent_execute(scoreRows, AmbiguousSegments)
       IN  /\ scoreRows' = r.rows
           /\ fieldWrites' = fieldWrites \cup
                  StageWrites(r.processed,
                              {"audio_emphasis_score", "facial_emphasis_score"},
                              "micro_emphasis")
           /\ lastOp' = [NoOp EXCEPT !.op = "micro_emphasis",
                                     !.written = r.processed,
                                     !.final = r.result]
    /\ UNCHANGED <<segmentRows, pipelineVars, sm, watchVars, promptVars, ctxCall>>

\* QualityAssuranceAgent.execute is called with the ambiguous segments
QualityAssurance ==
    /\ scoreOps < MaxScoreOps
    /\ scoreOps' = scoreOps + 1
    /\ LET r == QualityAssuranceAgent_execute(scoreRows, AmbiguousSegments)
       IN  /\ scoreRows' = r.rows
           /\ fieldWrites' = fieldWrites \cup
                  StageWrites(r.evaluated, {"cloud_score", "escalated_to_cloud"},
                              "quality_assurance")
           /\ lastOp' = [NoOp EXCEPT !.op = "quality_assurance",
                                     !.written = r.evaluated,
                                     !.final = r.result]
    /\ UNCHANGED <<segmentRows, pipelineVars, sm, watchVars, promptVars, ctxCall>>

\* ScoringRankingAgent._rank_segments is called with a list of segments
RankSegments ==
    /\ \E segments \in RankInputs :
          lastOp' = [NoOp EXCEPT !.op = "_rank_segments",
                                 !.input = segments,
                                 !.final = rank_segments(segments)]
    /\ UNCHANGED <<segmentRows, scoreRows, fieldWrites, scoreOps, pipelineVars, sm,
                   watchVars, promptVars, ctxCall>>

NextScore ==
    \/ AddSegment
    \/ SaveSegmentsToDb
    \/ AddOrUpdateScore
    \/ VisionScoring
    \/ CalculateFinalScore
    \/ MicroEmphasis
    \/ QualityAssurance
    \/ RankSegments

SpecScore == Init /\ [][NextScore]_vars

\* ------------------------------------------------- the prompt protocols alone
\* Prompt.parse_output is called on a response text, bare or wrapped in fences
CallParseOutput ==
    /\ \E protocol \in PROTOCOL_MAP, base \in PlainTexts \cup FencedTexts,
          wrapping \in Wrappings :
          protoCall' = [NoProtoCall EXCEPT
                          !.fn = "parse_output",
                          !.protocol = protocol,
                          !.wrapping = wrapping,
                          !.base = base,
                          !.text = Wrap(wrapping, base),
                          !.outcome = parse_output(protocol, Wrap(wrapping, base))]
    /\ UNCHANGED <<cache, instances, providerLog, pipelineVars, sm, watchVars,
                   scoreVars, ctxCall>>

\* Prompt.format is called with keyword arguments
CallFormat ==
    /\ \E template \in TemplateInputs, input_variables \in InputVariables,
          kwargs \in KwargsInputs :
          protoCall' = [NoProtoCall EXCEPT
                          !.fn = "format",
                          !.template = template,
                          !.input_variables = input_variables,
                          !.kwargs = kwargs,
                          !.outcome = format(template, input_variables, kwargs)]
    /\ UNCHANGED <<cache, instances, providerLog, pipelineVars, sm, watchVars,
                   scoreVars, ctxCall>>

NextProto == CallParseOutput \/ CallFormat

SpecProto == Init /\ [][NextProto]_vars

\* ------------------------------------------------- the prompt provider alone
\* PromptProvider.get(prompt_name, version) is called; providerLog keeps the
\* calls since the last clear_cache
Get ==
    /\ Len(providerLog) < MaxGets
    /\ \E prompt_name \in PromptNames, version \in Versions :
          LET r == get(cache, instances, prompt_name, version)
          IN  /\ cache' = r.cache
              /\ instances' = r.instances
              /\ providerLog' = Append(providerLog,
                     [prompt_name |-> prompt_name, version |-> version,
                      result |-> r.result, exc |-> r.exc,
                      loaded |-> r.loaded, validated |-> r.validated])
    /\ UNCHANGED <<protoCall, pipelineVars, sm, watchVars, scoreVars, ctxCall>>

\* PromptProvider.clear_cache() is called
ClearCache ==
    /\ instances < MaxInstances
    /\ providerLog # <<>>
    /\ cache' = clear_cache(cache)
    /\ providerLog' = <<>>
    /\ UNCHANGED <<protoCall, instances, pipelineVars, sm, watchVars, scoreVars, ctxCall>>

NextProvider == Get \/ ClearCache

SpecProvider == Init /\ [][NextProvider]_vars

\* ------------------------------------------------- PipelineContext.to_dict alone
\* context.to_dict() as _run_transcription calls it, for any context
CallToDict ==
    \E c \in ContextInputs :
        /\ ctxCall' = [called |-> TRUE, self |-> c, dict |-> to_dict(c)]
        /\ UNCHANGED <<pipelineVars, sm, watchVars, scoreVars, promptVars>>

NextContext == CallToDict

SpecContext == Init /\ [][NextContext]_vars

\* ------------------------------------------------- the video status in the store
\* DatabaseOperations.create_video is called and adds a row
StoreCreateVideo ==
    \E v \in Videos, kwargs \in CreateKwargs :
        /\ videoStatus[v] = Absent
        /\ videoStatus' = [videoStatus EXCEPT ![v] = create_video(kwargs)]
        /\ statusWriter' = [statusWriter EXCEPT ![v] = "create_video"]
        /\ UNCHANGED <<transcript, log, pc, run, runs, dirs, context, sm, watchVars,
                       scoreVars, promptVars, ctxCall>>

\* DatabaseOperations.update_video_status is called with a status string
StoreUpdateVideoStatus ==
    \E v \in Videos, status \in StateInputs :
        /\ videoStatus' = [videoStatus EXCEPT ![v] = update_video_status(@, status)]
        /\ statusWriter' = [statusWriter EXCEPT ![v] =
                               IF videoStatus[v] # Absent THEN "update_video_status"
                               ELSE @]
        /\ UNCHANGED <<transcript, log, pc, run, runs, dirs, context, sm, watchVars,
                       scoreVars, promptVars, ctxCall>>

NextStoreStatus == StoreCreateVideo \/ StoreUpdateVideoStatus

SpecStoreStatus == Init /\ [][NextStoreStatus]_vars

\* ------------------------------------------------- the times in the store
\* DatabaseOperations.add_transcript_segments is called for the first video
StoreAddTranscriptSegments ==
    \E segments \in TimedTranscripts :
        /\ Len(transcript[1]) + Len(segments) <= NumSegIds
        /\ transcript' = [transcript EXCEPT ![1] = add_transcript_segments(@, segments)]
        /\ UNCHANGED <<videoStatus, statusWriter, log, pc, run, runs, dirs, context, sm,
                       watchVars, scoreVars, promptVars, ctxCall>>

\* DatabaseOperations.add_segment is called
StoreAddSegment ==
    \E t \in TimedSegPool :
        /\ Len(segmentRows) < NumSegIds
        /\ segmentRows' = add_segment(segmentRows, t.start_time, t.end_time, "local_vlm")
        /\ UNCHANGED <<scoreRows, fieldWrites, lastOp, scoreOps, pipelineVars, sm,
                       watchVars, promptVars, ctxCall>>

\* TextScoringAgent.execute, lines 209-215: the model's response is parsed
\* and validated by parse_output, and the segments it returns are saved; a
\* response that does not parse raises and nothing is saved
StoreTextScoringSave ==
    \E d \in TextScoringDocs :
        LET parsed_output == parse_output("text_scoring", <<Json(d)>>)
        IN  /\ parsed_output.ok
            /\ LET segments_data == Val(parsed_output.record).segments
                   r == save_segments_to_db(segmentRows, scoreRows, segments_data)
               IN  /\ Len(segmentRows) + Len(segments_data) <= NumSegIds
                   /\ r.exc = NoException
                   /\ segmentRows' = r.segs
                   /\ scoreRows' = r.rows
            /\ UNCHANGED <<fieldWrites, lastOp, scoreOps, pipelineVars, sm, watchVars,
                           promptVars, ctxCall>>

NextStoreTimes == StoreAddTranscriptSegments \/ StoreAddSegment \/ StoreTextScoringSave

SpecStoreTimes == Init /\ [][NextStoreTimes]_vars

\* ------------------------------------------------- properties
Range(seq) == {seq[i] : i \in DOMAIN seq}

IsPrefix(s, t) == Len(s) <= Len(t) /\ \A i \in DOMAIN s : s[i] = t[i]

\* execute_pipeline has returned or raised for v, and its caller has not gone on
Ended(v) == pc[v] \in {"returned", "raised"}

\* the log entries the current execute_pipeline call of v has appended
RunEntries(v) == {log[v][i] : i \in (run[v].logStart + 1)..Len(log[v])}

\* the run of v ended as failed: an agent reported failure or something raised
RunFailed(v) == Ended(v) /\ (run[v].failed # <<>> \/ run[v].raisedAny)

\* the pair of status strings is in the transition table
TableHas(current, next_state) ==
    \E m \in DOMAIN TRANSITIONS :
        /\ VideoState[m] = current
        /\ \E i \in DOMAIN TRANSITIONS[m] : VideoState[TRANSITIONS[m][i]] = next_state

\* the status of v changes in this step (the row exists before and after)
StatusChanges(v) == videoStatus[v] # Absent /\ videoStatus'[v] # videoStatus[v]

\* C1: whenever execute_pipeline has returned from a run that failed (an agent
\* reported success=false, or an exception was raised), the Video's status is
\* ERROR.
C1_FailedRunLeavesError ==
    \A v \in Videos :
        (pc[v] = "returned" /\ RunFailed(v) /\ videoStatus[v] # Absent)
            => videoStatus[v] = VideoState.ERROR

C3_SuccessPersistedBeforeNextStage ==
    \A v \in Videos :
        (pc[v] = "stage" /\ run[v].stage = 2 /\ run[v].succeeded = <<"transcription">>)
            => /\ Len(transcript[v]) >= Len(run[v].output)
               /\ SubSeq(transcript[v],
                         Len(transcript[v]) - Len(run[v].output) + 1,
                         Len(transcript[v])) = run[v].output
               /\ LogEntry("transcribe", "ok", <<>>) \in RunEntries(v)
               /\ videoStatus[v] = VideoState.TRANSCRIBED

\* C4: the stage agents a run invokes are a prefix of the seven stages in
\* order; every invoked stage but the last has succeeded, so each is invoked
\* once, only after its predecessor succeeded, and none after a failure.
C4_InvokedIsOrderedPrefix ==
    \A v \in Videos :
        /\ IsPrefix(run[v].invoked, STAGES)
        /\ IsPrefix(run[v].succeeded, run[v].invoked)
        /\ run[v].invoked = run[v].succeeded \o run[v].failed
        /\ Len(run[v].failed) <= 1

C4_Witness ==
    \E v \in Videos :
        /\ Ended(v)
        /\ run[v].invoked = <<"transcription">>
        /\ run[v].failed = <<"transcription">>

\* C5: execute_pipeline returns True only if all seven stages were invoked and
\* reported success; a run in which a stage failed, was skipped or raised
\* does not return True.
C5_TrueOnlyAfterAllStages ==
    \A v \in Videos :
        Ended(v) =>
            /\ run[v].ret = "True" => run[v].succeeded = STAGES
            /\ (run[v].failed # <<>> \/ run[v].raisedAny \/ run[v].invoked # STAGES)
                  => run[v].ret # "True"

C5_Witness ==
    \E v \in Videos :
        /\ pc[v] = "returned"
        /\ run[v].succeeded = <<"transcription">>
        /\ run[v].invoked # STAGES
        /\ run[v].ret = "False"

\* C6: a run started on a Video in INGESTED in which every invoked agent
\* reported success and nothing raised ends having returned True with the
\* Video in READY.
C6_AllSuccessReachesReady ==
    \A v \in Videos :
        (Ended(v) /\ run[v].startStatus = VideoState.INGESTED
                  /\ run[v].failed = <<>> /\ ~run[v].raisedAny)
            => /\ run[v].ret = "True"
               /\ run[v].succeeded = STAGES
               /\ videoStatus[v] = VideoState.READY

\* C7: when log_step raised while a stage failure or an exception was being
\* handled, execute_pipeline still returns False (it does not raise the
\* logging error) and what it logs for the run is the original error.
C7_LoggingFailureDoesNotMask ==
    \A v \in Videos :
        (Ended(v) /\ run[v].logFailed /\ videoStatus[v] # Absent)
            => /\ pc[v] = "returned"
               /\ run[v].ret = "False"
               /\ \A e \in RunEntries(v) :
                     e.step = "pipeline" => e.message = run[v].origError

StageSucceeds(v) ==
    pc[v] = "stage" /\ Len(run'[v].succeeded) = Len(run[v].succeeded) + 1

C10_ValidateIffInTable ==
    (/\ sm.called = "validate_transition"
     /\ sm.current \in StateNames
     /\ sm.next_state \in StateNames)
        => /\ sm.exc = NoException <=> TableHas(sm.current, sm.next_state)
           /\ ~TableHas(sm.current, sm.next_state)
                 => /\ sm.exc.type = "ValueError"
                    /\ sm.exc.message =
                          <<"Invalid transition from ", sm.current, " to ", sm.next_state>>

C10_Witness ==
    /\ sm.called = "validate_transition"
    /\ sm.current = VideoState.READY
    /\ sm.next_state = VideoState.TRANSCRIBED
    /\ sm.exc.type = "ValueError"
    /\ sm.exc.message = <<"Invalid transition from ", "ready", " to ", "transcribed">>

\* the chain of states a video moves along, and the two terminal states
Chain == <<"ingested", "transcribed", "segmented", "scored", "ready", "archived">>

Terminal == {"error", "archived"}

ChainNext(s) == Chain[(CHOOSE i \in DOMAIN Chain : Chain[i] = s) + 1]

\* the state machine call recorded in sm accepted the transition
Accepted ==
    IF sm.called = "can_transition" THEN sm.answer ELSE sm.exc = NoException

\* C11: no transition out of ERROR or ARCHIVED is accepted, whatever is
\* requested; from each of the five other states exactly two transitions are
\* accepted, the one to ERROR and the one to the next state of the chain.
C11_TerminalAndForward ==
    sm.called # "none" =>
        /\ sm.current \in Terminal => ~Accepted
        /\ (sm.current \in StateNames \ Terminal /\ sm.next_state \in StateNames)
              => (Accepted <=> sm.next_state \in {"error", ChainNext(sm.current)})

C11_Witness ==
    /\ sm.called = "can_transition"
    /\ sm.current = VideoState.ARCHIVED
    /\ sm.next_state = VideoState.ERROR
    /\ ~sm.answer

\* C12: when the current or the requested string is not a state name,
\* validate_transition raises the invalid-state error for the first such
\* string, whose message differs from that of the invalid-transition error,
\* and it does so even where the table would have refused the pair.
C12_InvalidStateFirst ==
    (/\ sm.called = "validate_transition"
     /\ (sm.current \notin StateNames \/ sm.next_state \notin StateNames))
        => /\ sm.exc.type = "ValueError"
           /\ sm.exc.message =
                 <<"Invalid state: ",
                   IF sm.current \notin StateNames THEN sm.current ELSE sm.next_state,
                   " is not a valid VideoState">>
           /\ sm.exc.message[1] # "Invalid transition from "

C12_Witness ==
    /\ sm.called = "validate_transition"
    /\ sm.current = VideoState.ERROR
    /\ sm.next_state = "transcribd"
    /\ sm.exc.message = <<"Invalid state: ", "transcribd", " is not a valid VideoState">>

\* C13 as claimed: when every notification for a path was queued before a
\* registration attempt of that path had completed, at most one Video row is
\* created for the file.
C13_AtMostOneVideoPerFile ==
    \A p \in Paths : ~late[p] => videosOf[p] <= 1

\* C14: a path is in the in-flight set only while on_created runs for it; it
\* is added by the handler that accepted its notification, removed only in
\* the handler's last step, after process_file has returned, and every path
\* in the set is eventually removed.
C14_InFlightEventuallyRemoved ==
    /\ [](\A p \in processing : handler.path = p /\ handler.pc # "idle")
    /\ [][\A p \in Paths :
             /\ (p \notin processing /\ p \in processing')
                   => handler.pc = "idle" /\ Head(eventQueue) = p
             /\ (p \in processing /\ p \notin processing')
                   => handler.pc = "finally" /\ handler.path = p]_vars
    /\ \A p \in Paths : (p \in processing) ~> (p \notin processing)

C14_Witness ==
    /\ handler.pc = "finally"
    /\ handler.raised
    /\ handler.path \in processing

\* the segment has a score row whose escalated_to_cloud is true
Escalated(rows, segment_id) ==
    \E i \in DOMAIN rows :
        rows[i].segment_id = segment_id /\ rows[i].escalated_to_cloud = Some(TRUE)

\* C15: once escalated_to_cloud is true for a segment, no operation sets it
\* back: it is true after every later step.
C15_EscalationMonotonic ==
    [][\A id \in SegIds : Escalated(scoreRows, id) => Escalated(scoreRows', id)]_vars

\* C16: every score row belongs to a segment that exists, and an
\* add_or_update_score for a segment_id without a segment ends in a store
\* integrity error.
C16_NoOrphanedScores ==
    /\ \A i \in DOMAIN scoreRows : scoreRows[i].segment_id \in DOMAIN segmentRows
    /\ (lastOp.op = "add_or_update_score" /\ ~lastOp.existed)
          => lastOp.exc.type = "IntegrityError"

\* the score rows of the segment
ScoresOf(segment_id) == {i \in DOMAIN scoreRows : scoreRows[i].segment_id = segment_id}

\* the text scoring stage saved the segment
SavedByText(segment_id) == <<segment_id, "text_score", "text_scoring">> \in fieldWrites

\* C17: no segment_id ever has two score rows, and a segment the text scoring
\* stage has saved has exactly one.
C17_OneScorePerSegment ==
    \A id \in SegIds :
        /\ Cardinality(ScoresOf(id)) <= 1
        /\ SavedByText(id) => Cardinality(ScoresOf(id)) = 1

C17_Witness ==
    /\ lastOp.op = "add_or_update_score"
    /\ SavedByText(lastOp.segment_id)
    /\ \E i \in ScoresOf(lastOp.segment_id) : scoreRows[i].vision_score = Some(80)

WeightConfigs ==
    {[text_score |-> 30, vision_score |-> 30, audio_emphasis_score |-> 15,
      facial_emphasis_score |-> 15, cloud_score |-> 10],
     [text_score |-> 50, vision_score |-> 20, audio_emphasis_score |-> 10,
      facial_emphasis_score |-> 10, cloud_score |-> 10]}

\* weight and weighted score of a channel of the row; nothing when it is absent
Weight(row, w, c) == IF row[c] = None THEN 0 ELSE w[c]

Weighted(row, w, c) == IF row[c] = None THEN 0 ELSE w[c] * Val(row[c])

\* combined_score is the weighted sum of the channels present, the weights
\* taken over those channels
IsWeightedSum(row, w) ==
    /\ row.combined_score # None
    /\ Val(row.combined_score)
          * (Weight(row, w, "text_score") + Weight(row, w, "vision_score")
             + Weight(row, w, "audio_emphasis_score")
             + Weight(row, w, "facial_emphasis_score")
             + Weight(row, w, "cloud_score"))
       = Weighted(row, w, "text_score") + Weighted(row, w, "vision_score")
         + Weighted(row, w, "audio_emphasis_score")
         + Weighted(row, w, "facial_emphasis_score")
         + Weighted(row, w, "cloud_score")

OnlyText(row) ==
    row.text_score # None /\ \A c \in Channels \ {"text_score"} : row[c] = None

\* C20: for a segment whose only populated channel is text_score, the stored
\* combined_score is text_score, and aggregation (_calculate_final_score)
\* yields text_score.
C20_TextOnlyKeepsTextScore ==
    \A i \in DOMAIN scoreRows :
        (OnlyText(scoreRows[i]) /\ SavedByText(scoreRows[i].segment_id))
            => /\ scoreRows[i].combined_score = scoreRows[i].text_score
               /\ (lastOp.op = "_calculate_final_score"
                   /\ lastOp.segment_id = scoreRows[i].segment_id)
                     => lastOp.final = scoreRows[i].text_score

\* every combined score a stage has just stored is a score in [0,1]
StoredCombinedInUnitInterval ==
    \A i \in DOMAIN scoreRows :
        scoreRows[i].segment_id \in lastOp.written
            => /\ scoreRows[i].combined_score # None
               /\ Val(scoreRows[i].combined_score) \in 0..100

\* C21: every combined score a stage has just stored, and every final score
\* _calculate_final_score computes from channel scores in [0,1], is a score
\* in [0,1].
C21_FinalScoreInUnitInterval ==
    /\ StoredCombinedInUnitInterval
    /\ lastOp.op = "_calculate_final_score"
          => /\ lastOp.final # None
             /\ Val(lastOp.final) \in 0..100

\* C22: when the micro-emphasis stage has run, it has processed every
\* segment of the ambiguous band; and a segment the cloud quality assurance
\* has evaluated was processed by micro-emphasis before.
C22_AmbiguousGoesToMicroEmphasis ==
    \A id \in AmbiguousSegments :
        /\ lastOp.op = "micro_emphasis" => id \in lastOp.written
        /\ <<id, "cloud_score", "quality_assurance">> \in fieldWrites
              => <<id, "audio_emphasis_score", "micro_emphasis">> \in fieldWrites

\* out holds the elements of in, each as often
IsPermutation(out, in) ==
    /\ Len(out) = Len(in)
    /\ \E f \in [DOMAIN out -> DOMAIN in] :
          /\ \A i, j \in DOMAIN out : i # j => f[i] # f[j]
          /\ \A i \in DOMAIN out : out[i] = in[f[i]]

\* final_score descending, equal scores by start_time ascending
IsRanked(out) ==
    \A i, j \in DOMAIN out :
        i < j => \/ out[i].final_score > out[j].final_score
                 \/ /\ out[i].final_score = out[j].final_score
                    /\ out[i].start_time <= out[j].start_time

\* C23: the ranking returns all the segments it was given, ordered by
\* final_score descending and, for equal scores, by start_time ascending.
C23_RankedByScoreThenStart ==
    lastOp.op = "_rank_segments"
        => /\ lastOp.final # None
           /\ IsPermutation(Val(lastOp.final), lastOp.input)
           /\ IsRanked(Val(lastOp.final))

\* ---- prompt protocols
\* the data json.loads returns for the text of the call
ParsedOfCall == json_loads(clean_llm_output(protoCall.text))

\* the parsed data has no reason where the protocol requires one
ReasonAbsent(protocol, data) ==
    IF protocol = "text_scoring"
    THEN /\ "segments" \in DOMAIN data
         /\ \E i \in DOMAIN data.segments : "reason" \notin DOMAIN data.segments[i]
    ELSE "reason" \notin DOMAIN data

\* C24: parse_output fails with the malformed-output error when the cleaned
\* text does not parse, and with a different error, which names the failing
\* fields (reason when reason is absent), when it parses and violates the
\* schema.
C24_MalformedAndSchemaErrorsDistinct ==
    protoCall.fn = "parse_output" =>
        LET o == protoCall.outcome
            parsed == ParsedOfCall
        IN  /\ ~parsed.ok
                => /\ ~o.ok
                   /\ o.error.message = "Failed to parse LLM output as JSON"
            /\ (parsed.ok /\ ~o.ok)
                => /\ o.error.message = "LLM output failed validation"
                   /\ o.error.message # json_decode_error.message
                   /\ o.error.fields # {}
                   /\ o.error.fields =
                          model_validate(protoCall.protocol, parsed.data).errors
            /\ (parsed.ok /\ ReasonAbsent(protoCall.protocol, parsed.data))
                => ~o.ok /\ "reason" \in o.error.fields

C24_Witness ==
    /\ protoCall.fn = "parse_output"
    /\ ParsedOfCall.ok
    /\ ReasonAbsent(protoCall.protocol, ParsedOfCall.data)
    /\ protoCall.outcome.error.message = "LLM output failed validation"
    /\ "reason" \in protoCall.outcome.error.fields

\* a segment with end_time > start_time, score in [0,1] and a reason of at
\* least 10 characters
SegmentAsClaimed(seg) ==
    /\ TextSegmentFields \subseteq DOMAIN seg
    /\ seg.end_time > seg.start_time
    /\ seg.score \in 0..100
    /\ Len(seg.reason) >= 10

\* the parsed data holds a non-empty list of segments that all satisfy ok
SegmentsAll(data, ok(_)) ==
    /\ "segments" \in DOMAIN data
    /\ Len(data.segments) >= 1
    /\ \A i \in DOMAIN data.segments : ok(data.segments[i])

\* parse_output of the text-scoring protocol returns a record exactly when
\* the parsed data satisfies cond, and nothing at all otherwise
TextScoringReturnsIff(cond(_)) ==
    (protoCall.fn = "parse_output" /\ protoCall.protocol = "text_scoring") =>
        LET o == protoCall.outcome
            parsed == ParsedOfCall
        IN  /\ o.ok <=> (parsed.ok /\ cond(parsed.data))
            /\ ~o.ok => o.record = None
            /\ o.ok => Val(o.record) = model_validate("text_scoring", parsed.data).value

\* C25 as stated: for the text-scoring protocol parse_output returns a record
\* if and only if the data is a non-empty list of segments with
\* end_time > start_time, score in [0,1] and a reason of 10 characters or more.
C25_ReturnsIffSegmentsValid ==
    TextScoringReturnsIff(LAMBDA data : SegmentsAll(data, SegmentAsClaimed))

\* C25: for the text-scoring protocol parse_output returns a record if and
\* only if the data is a non-empty list of segments with start_time >= 0,
\* end_time > start_time, score in [0,1] and a reason of 10 characters or
\* more; otherwise the caller receives no record.
C25_ReturnsIffSegmentsValidFromZero ==
    TextScoringReturnsIff(
        LAMBDA data : SegmentsAll(data,
            LAMBDA seg : SegmentAsClaimed(seg) /\ seg.start_time >= 0))

C25_Witness ==
    /\ protoCall.fn = "parse_output"
    /\ protoCall.protocol = "text_scoring"
    /\ protoCall.outcome.ok
    /\ Len(Val(protoCall.outcome.record).segments) = 2

\* C26: when parse_output accepts a response, the record it returns equals
\* the parsed data: no field lost, none added, no value altered.
C26_RecordEqualsParsedData ==
    (protoCall.fn = "parse_output" /\ protoCall.outcome.ok)
        => Val(protoCall.outcome.record) = ParsedOfCall.data

\* the same record, or the same kind of failure
SameOutcome(a, b) ==
    /\ a.ok = b.ok
    /\ a.record = b.record
    /\ a.error.message = b.error.message

\* C27: parse_output of a response wrapped in json or plain code fences has
\* the outcome parse_output has on the response itself, and cleaning leaves
\* a response that is a JSON document without surrounding fences as it is.
C27_FencesDoNotChangeOutcome ==
    protoCall.fn = "parse_output" =>
        /\ SameOutcome(protoCall.outcome,
                       parse_output(protoCall.protocol, protoCall.base))
        /\ (protoCall.wrapping = "none" /\ json_loads(protoCall.text).ok)
              => json_loads(clean_llm_output(protoCall.text))
                     = json_loads(protoCall.text)

\* the required names the keyword arguments of the call lack
AbsentNames ==
    {n \in Range(protoCall.input_variables) : n \notin DOMAIN protoCall.kwargs}

\* C28: format fails with the missing-variable error listing every absent
\* required name, and returns no text, whenever a name of input_variables is
\* not supplied; it returns text only when every required name was supplied
\* and every replacement field of the template was substituted.
C28_FormatAllOrNothing ==
    protoCall.fn = "format" =>
        LET o == protoCall.outcome
        IN  /\ AbsentNames # {}
                => /\ ~o.ok
                   /\ o.text = None
                   /\ o.error.message = "Missing required input variables"
                   /\ Range(o.error.names) = AbsentNames
            /\ o.ok
                => /\ AbsentNames = {}
                   /\ Len(Val(o.text)) = Len(protoCall.template)
                   /\ \A i \in DOMAIN protoCall.template :
                         /\ Val(o.text)[i].kind = "text"
                         /\ protoCall.template[i].kind = "field"
                               => Val(o.text)[i].name
                                      = protoCall.kwargs[protoCall.template[i].name]

C28_Witness ==
    /\ protoCall.fn = "format"
    /\ Cardinality(AbsentNames) = 2
    /\ ~protoCall.outcome.ok
    /\ Range(protoCall.outcome.error.names) = AbsentNames

\* ---- prompt provider
\* the calls of providerLog for the pair
CallsOf(prompt_name, version) ==
    {i \in DOMAIN providerLog :
        /\ providerLog[i].prompt_name = prompt_name
        /\ providerLog[i].version = version}

\* the instances the calls for the pair returned
InstancesOf(prompt_name, version) ==
    UNION {providerLog[i].result : i \in CallsOf(prompt_name, version)}

\* since the last clear_cache all calls for a pair returned one instance, and
\* no two pairs were given the same instance
OneInstancePerPair ==
    \A n1 \in PromptNames, v1 \in Versions :
        /\ Cardinality(InstancesOf(n1, v1)) <= 1
        /\ \A n2 \in PromptNames, v2 \in Versions :
              <<n1, v1>> # <<n2, v2>>
                  => InstancesOf(n1, v1) \cap InstancesOf(n2, v2) = {}

\* the definition of the pair was loaded and validated at most once
LoadedAtMostOnce(prompt_name, version) ==
    /\ Cardinality({i \in CallsOf(prompt_name, version) : providerLog[i].loaded}) <= 1
    /\ Cardinality({i \in CallsOf(prompt_name, version) : providerLog[i].validated}) <= 1

\* C29 as stated: between two clear_cache calls all get calls for a pair
\* return the identical instance, the definition of every pair is loaded and
\* validated at most once, and no pair is given another pair's instance.
C29_OneInstanceOneLoad ==
    /\ OneInstancePerPair
    /\ \A n \in PromptNames, v \in Versions : LoadedAtMostOnce(n, v)

\* C29: between two clear_cache calls all get calls for a pair return the
\* identical instance and no pair is given another pair's instance; the
\* definition of a pair for which get returns is loaded and validated at
\* most once.
C29_OneInstanceOneSuccessfulLoad ==
    /\ OneInstancePerPair
    /\ \A n \in PromptNames, v \in Versions :
          InstancesOf(n, v) # {} => LoadedAtMostOnce(n, v)

C29_Witness ==
    \E n1 \in PromptNames, v1 \in Versions, n2 \in PromptNames, v2 \in Versions :
        /\ Cardinality(CallsOf(n1, v1)) = 2
        /\ Cardinality(InstancesOf(n1, v1)) = 1
        /\ <<n1, v1>> # <<n2, v2>>
        /\ InstancesOf(n2, v2) # {}

\* ---- pipeline directories
\* C30: while a stage of an execute_pipeline run can be running, the
\* processed, clips and temp directories of the context exist; and
\* ensure_directories, called when they exist, raises nothing and changes
\* nothing.
C30_DirectoriesExistWhileStagesRun ==
    /\ [](\A v \in Videos : pc[v] = "stage" => dirs[v] = AllDirs)
    /\ [](\A fault \in MkdirFaults :
             ensure_directories(AllDirs, fault)
                 = [dirs |-> AllDirs, exc |-> NoException])
    /\ [][\A v \in Videos :
             (pc[v] = "idle" /\ pc'[v] # "idle" /\ dirs[v] = AllDirs)
                 => (pc'[v] = "stage" /\ dirs'[v] = dirs[v])]_vars

C30_Witness ==
    \E v \in Videos :
        /\ pc[v] = "stage"
        /\ InitDirs(v) # AllDirs
        /\ dirs[v] = AllDirs

\* C31: no step of an execute_pipeline run changes a PipelineContext: its
\* video_id, user_id, base_path, video_path, watch_directory_id and metadata
\* stay as constructed, and no stage output appears in it.
C31_ContextNeverChanges ==
    [][/\ context' = context
       /\ \A v \in Videos :
             "transcript_segments" \notin DOMAIN context'[v].metadata]_vars

C31_Witness ==
    \E v \in Videos :
        /\ Ended(v)
        /\ run[v].succeeded # <<>>
        /\ run[v].output # <<>>
        /\ context[v] = process_file_context(v)

StoreOf(b) == <<videoStatus[b], statusWriter[b], transcript[b], log[b]>>

\* C34: a step of the run of video a changes no status, transcript or log
\* entry of another video b, and no segment or score row; every store write
\* of a run goes to the run's own video_id.
C34_RunsDoNotTouchOtherVideos ==
    [][\A a, b \in Videos :
          (a # b /\ (pc'[a] # pc[a] \/ run'[a] # run[a]))
              => /\ StoreOf(b)' = StoreOf(b)
                 /\ segmentRows' = segmentRows
                 /\ scoreRows' = scoreRows]_vars

C34_Witness ==
    \E a, b \in Videos :
        /\ a # b
        /\ pc[a] = "stage"
        /\ Ended(b)
        /\ run[b].succeeded # <<>>
        /\ transcript[b] # <<>>
        /\ transcript[a] = <<>>

\* C36: an execute_pipeline call started on a Video whose status is ERROR or
\* ARCHIVED, or is not a recognized state name, ends by returning False (it
\* does not raise) and leaves the status as it was, whatever the agents return.
C36_TerminalStartReturnsFalse ==
    \A v \in Videos :
        (/\ Ended(v)
         /\ run[v].startStatus # Absent
         /\ run[v].startStatus \in
               {VideoState.ERROR, VideoState.ARCHIVED}
                   \cup ({videoStatus[w] : w \in Videos} \ StateNames))
            => /\ pc[v] = "returned"
               /\ run[v].ret = "False"
               /\ videoStatus[v] = run[v].startStatus

\* C38: a run that has appended an 'ok' entry for the transcription stage has
\* applied the transition INGESTED -> TRANSCRIBED to the Video's status; no
\* 'ok' is recorded while the status was left as it was.
C38_OkOnlyWithTransition ==
    \A v \in Videos :
        (/\ pc[v] # "idle"
         /\ LogEntry("transcribe", "ok", <<>>) \in RunEntries(v))
            => /\ run[v].startStatus = VideoState.INGESTED
               /\ videoStatus[v] = VideoState.TRANSCRIBED

\* C40: the dict to_dict returns has video_id, user_id, base_path, video_path
\* and watch_directory_id equal to the context's own fields (base_path as its
\* string), whatever the metadata holds.
C40_FieldsNotOverridden ==
    ctxCall.called =>
        LET c == ctxCall.self
            d == ctxCall.dict
        IN  /\ d.video_id = c.video_id
            /\ d.user_id = c.user_id
            /\ d.base_path = str(c.base_path)
            /\ d.video_path = c.video_path
            /\ d.watch_directory_id = c.watch_directory_id

\* C33: every stored transcript line and every stored candidate segment has
\* end_time > start_time.
C33_EndAfterStart ==
    /\ \A v \in Videos : \A i \in DOMAIN transcript[v] :
          transcript[v][i].end_time > transcript[v][i].start_time
    /\ \A i \in DOMAIN segmentRows :
          segmentRows[i].end_time > segmentRows[i].start_time

\* C35: the status of every Video row is one of the seven state names.
C35_StatusIsAStateName ==
    \A v \in Videos : videoStatus[v] # Absent => videoStatus[v] \in StateNames

\* C37: when process_file returns, a Video row for the file has been added
\* only if the call returned success and logged the 'ingest' ok entry; a call
\* that returns success=false leaves no Video row of its own behind.
C37_RegistrationAllOrNothing ==
    [][(handler.pc = "process_file" /\ handler'.pc # "process_file")
          => LET p == handler.path
             IN  /\ videosOf'[p] > videosOf[p]
                       => handler'.result.success /\ handler'.result.logged
                 /\ ~handler'.result.success => videosOf'[p] = videosOf[p]]_vars

\* the candidate segment k has no vision_score: it has no score row, or its
\* row's vision_score is null
NotVisionScored(k) ==
    LET i == first_score(scoreRows, k)
    IN  i = 0 \/ scoreRows[i].vision_score = None

====
